---- MODULE Spec2Model ----
(***************************************************************************)
(* Model of the AI triage service: the rules engine (per-patient debounced *)
(* threshold evaluation with TTL eviction), the JetStream vitals consumer  *)
(* (bounded-retry acquisition and the per-message ack/nak pipeline), the   *)
(* alert publisher and the operational counters.                           *)
(***************************************************************************)
EXTENDS Integers, Sequences, FiniteSets, TLC

(***************************************************************************)
(* Bounds of the model.                                                    *)
(***************************************************************************)
\* Largest persist_samples value a rule configuration carries.
MaxPersist == 2
\* Cap on a violation counter (evaluate is not fired beyond it).
MaxCount == 3
\* Last instant of the engine's clock.
MaxTime == 4
\* State TTL / sweep period, in clock units.
StateTtl == 2
\* Number of messages producers put on the stream.
MaxMsgs == 2
\* Cap on a violation counter in the pipeline (no delivery is handled beyond it).
PipelineMaxCount == 6

(***************************************************************************)
(* Rule configuration (rules/default.json, RulesConfig).                   *)
(***************************************************************************)
\* An optional field that is absent (JavaScript undefined).
Undefined == -1

HighThreshold == 120
LowThreshold == 50
Spo2Threshold == 90

\* The rule file of the README and of the engine's unit tests.
TestRules ==
    [hr_high |-> HighThreshold, hr_low |-> LowThreshold, hr_persist |-> 2,
     spo2_low |-> Spo2Threshold, spo2_persist |-> 1]

Kinds == {"heart_rate_high", "heart_rate_low", "spo2_low"}

Patients == {"p1", "p2"}

PersistChoices == {Undefined} \cup (0..MaxPersist)

\* Every rule file the loader can hand to the engine: each threshold
\* direction present or absent, persist_samples absent, 0 or positive.
RulesConfigs ==
    [hr_high : {Undefined, HighThreshold},
     hr_low : {Undefined, LowThreshold},
     hr_persist : PersistChoices,
     spo2_low : {Undefined, Spo2Threshold},
     spo2_persist : PersistChoices]

\* Heart-rate and SpO2 readings on both sides of every threshold and cutoff.
HeartRates == {40, 75, 130}
Saturations == {85, 98}

VitalsData ==
    [patient_id : Patients, heart_rate : HeartRates, oxygen_saturation : Saturations]

VARIABLES
    rules,          \* RulesEngine.rules
    patientStates,  \* RulesEngine.patientStates: patient id -> PatientState
    now,            \* Date.now()
    nextSweep,      \* instant at which the cleanup interval fires next
    lastEval,       \* observation: the last evaluate() call and its result
    streak,         \* observation: consecutive violating samples per patient, kind
    sweepObs,       \* observation: last evaluate() per patient, last sweep's evictions
    startPc,        \* VitalsConsumer.start / connectAndConsume: where it stands
    attempt,        \* start(): the loop variable
    lastError,      \* start(): the error caught last
    consumerExists, \* JetStream: the durable consumer exists on the stream
    acq,            \* observation: calls, waits and outcomes of the acquisition
    counters,       \* Metrics.counters
    schemasLoaded,  \* SchemaValidator.schemasLoaded
    schemas,        \* SchemaValidator.ajv: the $ids of the schemas added
    connected,      \* NatsClient.nc !== null
    broker,         \* JetStream: the stream's messages and their delivery state
    pc,             \* handleMessage: idle, or suspended in the publish
    cur,            \* observation: the delivery being handled, or handled last
    alerts,         \* observation: the alert events publishAlert built, in order
    proc,           \* main(): the process, and what became of the start() promise
    snapshot,       \* the object a getCounters() call returned to an observer
    client          \* NatsClient: connecting, the connect() calls and their attempts

engineVars == <<rules, patientStates, now, nextSweep, lastEval, streak, sweepObs>>
startVars == <<startPc, attempt, lastError, consumerExists, acq>>
pipeVars == <<counters, schemasLoaded, schemas, connected, broker, pc, cur, alerts>>
mainVars == <<proc>>
apiVars == <<snapshot>>
natsVars == <<client>>
vars == <<engineVars, startVars, pipeVars, mainVars, apiVars, natsVars>>

(***************************************************************************)
(* RulesEngine                                                             *)
(***************************************************************************)
Threshold(kind, r) ==
    CASE kind = "heart_rate_high" -> r.hr_high
      [] kind = "heart_rate_low" -> r.hr_low
      [] kind = "spo2_low" -> r.spo2_low

KindEnabledAlways(kind, r) == TRUE

\* this.rules.<metric>?.<threshold> !== undefined
KindEnabled(kind, r) == Threshold(kind, r) # Undefined

\* vitals.<metric> > high_threshold, or < low_threshold
IsViolating(kind, vitals, r) ==
    CASE kind = "heart_rate_high" -> vitals.heart_rate > r.hr_high
      [] kind = "heart_rate_low" -> vitals.heart_rate < r.hr_low
      [] kind = "spo2_low" -> vitals.oxygen_saturation < r.spo2_low

PersistSamplesIgnored(kind, r) == 1

\* this.rules.<metric>.persist_samples || 1
PersistSamples(kind, r) ==
    LET p == IF kind = "spo2_low" THEN r.spo2_persist ELSE r.hr_persist
    IN IF p = Undefined \/ p = 0 THEN 1 ELSE p

ReasonCode(kind) ==
    CASE kind = "heart_rate_high" -> "HEART_RATE_HIGH"
      [] kind = "heart_rate_low" -> "HEART_RATE_LOW"
      [] kind = "spo2_low" -> "SPO2_LOW"

\* The reason pushed for a kind: its code and the two numbers of its message.
Reason(kind, vitals, r) ==
    [code |-> ReasonCode(kind),
     value |-> IF kind = "spo2_low" THEN vitals.oxygen_saturation ELSE vitals.heart_rate,
     threshold |-> Threshold(kind, r)]

NoViolations == [k \in Kinds |-> Undefined]

GetPatientStatePrimed(ps, patientId, t) ==
    IF patientId \in DOMAIN ps
    THEN ps
    ELSE ps @@ (patientId :> [patientId |-> patientId,
                              violations |-> [k \in Kinds |-> 1],
                              lastUpdated |-> t])

GetPatientStateFresh(ps, patientId, t) ==
    [q \in (DOMAIN ps) \cup {patientId} |->
        IF q = patientId
        THEN [patientId |-> patientId, violations |-> NoViolations, lastUpdated |-> t]
        ELSE ps[q]]

\* getPatientState: the map with an entry for patientId, created if absent.
GetPatientState(ps, patientId, t) ==
    IF patientId \in DOMAIN ps
    THEN ps
    ELSE ps @@ (patientId :> [patientId |-> patientId,
                              violations |-> NoViolations,
                              lastUpdated |-> t])

UpdateViolationCountOnce(violations, kind, isViolating) ==
    IF isViolating
    THEN [violations EXCEPT ![kind] = IF @ = Undefined \/ @ = 0 THEN 1 ELSE @]
    ELSE [violations EXCEPT ![kind] = 0]

UpdateViolationCountNoReset(violations, kind, isViolating) ==
    IF isViolating
    THEN [violations EXCEPT ![kind] = (IF @ = Undefined THEN 0 ELSE @) + 1]
    ELSE violations

\* updateViolationCount: the violations object after the update.
UpdateViolationCount(violations, kind, isViolating) ==
    IF isViolating
    THEN [violations EXCEPT ![kind] = (IF @ = Undefined THEN 0 ELSE @) + 1]
    ELSE [violations EXCEPT ![kind] = 0]

CheckKindCoupled(acc, kind, vitals, r) ==
    IF ~KindEnabled(kind, r)
    THEN acc
    ELSE LET v1 == UpdateViolationCount(acc.violations, kind, IsViolating(kind, vitals, r))
             v2 == IF kind = "spo2_low" /\ IsViolating(kind, vitals, r)
                   THEN [v1 EXCEPT !["heart_rate_high"] = 0]
                   ELSE v1
             count == v2[kind]
         IN [violations |-> v2,
             reasons |-> IF count >= PersistSamples(kind, r)
                         THEN Append(acc.reasons, Reason(kind, vitals, r))
                         ELSE acc.reasons]

\* One "Check <kind>" block of evaluate(), applied to the violations object
\* and the reasons collected so far.
CheckKind(acc, kind, vitals, r) ==
    IF ~KindEnabled(kind, r)
    THEN acc
    ELSE LET v2 == UpdateViolationCount(acc.violations, kind, IsViolating(kind, vitals, r))
             count == v2[kind]
         IN [violations |-> v2,
             reasons |-> IF count >= PersistSamples(kind, r)
                         THEN Append(acc.reasons, Reason(kind, vitals, r))
                         ELSE acc.reasons]

HasCode(reasons, code) == \E i \in 1..Len(reasons) : reasons[i].code = code

CalculateSeverityByMagnitude(reasons, vitals) ==
    IF \/ HasCode(reasons, "SPO2_LOW") /\ vitals.oxygen_saturation < 85
       \/ HasCode(reasons, "HEART_RATE_HIGH") /\ vitals.heart_rate > 140
       \/ HasCode(reasons, "HEART_RATE_LOW") /\ vitals.heart_rate < 40
    THEN "high"
    ELSE IF \/ HasCode(reasons, "SPO2_LOW") /\ vitals.oxygen_saturation < 90
            \/ HasCode(reasons, "HEART_RATE_HIGH") /\ vitals.heart_rate > 130
            \/ HasCode(reasons, "HEART_RATE_LOW") /\ vitals.heart_rate < 45
         THEN "medium"
    ELSE "low"

CalculateSeverityInclusive(reasons, vitals) ==
    IF Len(reasons) >= 2 THEN "high"
    ELSE IF \/ HasCode(reasons, "SPO2_LOW") /\ vitals.oxygen_saturation <= 85
            \/ HasCode(reasons, "HEART_RATE_HIGH") /\ vitals.heart_rate >= 140
            \/ HasCode(reasons, "HEART_RATE_LOW") /\ vitals.heart_rate <= 40
         THEN "high"
    ELSE IF \/ HasCode(reasons, "SPO2_LOW") /\ vitals.oxygen_saturation <= 90
            \/ HasCode(reasons, "HEART_RATE_HIGH") /\ vitals.heart_rate >= 130
            \/ HasCode(reasons, "HEART_RATE_LOW") /\ vitals.heart_rate <= 45
         THEN "medium"
    ELSE "low"

CalculateSeverity(reasons, vitals) ==
    IF Len(reasons) >= 2 THEN "high"
    ELSE IF \/ HasCode(reasons, "SPO2_LOW") /\ vitals.oxygen_saturation < 85
            \/ HasCode(reasons, "HEART_RATE_HIGH") /\ vitals.heart_rate > 140
            \/ HasCode(reasons, "HEART_RATE_LOW") /\ vitals.heart_rate < 40
         THEN "high"
    ELSE IF \/ HasCode(reasons, "SPO2_LOW") /\ vitals.oxygen_saturation < 90
            \/ HasCode(reasons, "HEART_RATE_HIGH") /\ vitals.heart_rate > 130
            \/ HasCode(reasons, "HEART_RATE_LOW") /\ vitals.heart_rate < 45
         THEN "medium"
    ELSE "low"

GetSuggestedActionModerate(reasons, vitals) ==
    IF Len(reasons) >= 2
    THEN "Immediate medical attention required. Multiple vital signs abnormal."
    ELSE IF HasCode(reasons, "SPO2_LOW")
    THEN IF vitals.oxygen_saturation < 90
         THEN "Critical: Administer oxygen immediately and contact physician."
         ELSE "Monitor closely and consider supplemental oxygen."
    ELSE IF HasCode(reasons, "HEART_RATE_HIGH")
    THEN IF vitals.heart_rate > 130
         THEN "Urgent: Check patient status and notify physician."
         ELSE "Monitor patient and reassess in 5 minutes."
    ELSE IF HasCode(reasons, "HEART_RATE_LOW")
    THEN IF vitals.heart_rate < 45
         THEN "Urgent: Check patient responsiveness and notify physician."
         ELSE "Monitor patient closely and assess symptoms."
    ELSE "Continue monitoring vital signs."

GetSuggestedAction(reasons, vitals) ==
    IF Len(reasons) >= 2
    THEN "Immediate medical attention required. Multiple vital signs abnormal."
    ELSE IF HasCode(reasons, "SPO2_LOW")
    THEN IF vitals.oxygen_saturation < 85
         THEN "Critical: Administer oxygen immediately and contact physician."
         ELSE "Monitor closely and consider supplemental oxygen."
    ELSE IF HasCode(reasons, "HEART_RATE_HIGH")
    THEN IF vitals.heart_rate > 140
         THEN "Urgent: Check patient status and notify physician."
         ELSE "Monitor patient and reassess in 5 minutes."
    ELSE IF HasCode(reasons, "HEART_RATE_LOW")
    THEN IF vitals.heart_rate < 40
         THEN "Urgent: Check patient responsiveness and notify physician."
         ELSE "Monitor patient closely and assess symptoms."
    ELSE "Continue monitoring vital signs."

NoAlert ==
    [shouldAlert |-> FALSE, severity |-> "undefined", reasons |-> <<>>,
     suggestedAction |-> "undefined"]

EvaluateTouchesAll(ps, vitals, t, r) ==
    LET id == vitals.patient_id
        ps1 == GetPatientState(ps, id, t)
        a0 == [violations |-> ps1[id].violations, reasons |-> <<>>]
        a1 == CheckKind(a0, "heart_rate_high", vitals, r)
        a2 == CheckKind(a1, "heart_rate_low", vitals, r)
        a3 == CheckKind(a2, "spo2_low", vitals, r)
    IN [states |-> [q \in DOMAIN ps1 |->
                       IF q = id
                       THEN [patientId |-> id, violations |-> a3.violations,
                             lastUpdated |-> t]
                       ELSE [ps1[q] EXCEPT !.lastUpdated = t]],
        result |-> IF Len(a3.reasons) = 0
                   THEN NoAlert
                   ELSE [shouldAlert |-> TRUE,
                         severity |-> CalculateSeverity(a3.reasons, vitals),
                         reasons |-> a3.reasons,
                         suggestedAction |-> GetSuggestedAction(a3.reasons, vitals)]]

\* evaluate(vitals) at instant t: the patient map afterwards and the result.
Evaluate(ps, vitals, t, r) ==
    LET id == vitals.patient_id
        ps1 == GetPatientState(ps, id, t)
        a0 == [violations |-> ps1[id].violations, reasons |-> <<>>]
        a1 == CheckKind(a0, "heart_rate_high", vitals, r)
        a2 == CheckKind(a1, "heart_rate_low", vitals, r)
        a3 == CheckKind(a2, "spo2_low", vitals, r)
    IN [states |-> [ps1 EXCEPT ![id] = [patientId |-> id,
                                        violations |-> a3.violations,
                                        lastUpdated |-> t]],
        result |-> IF Len(a3.reasons) = 0
                   THEN NoAlert
                   ELSE [shouldAlert |-> TRUE,
                         severity |-> CalculateSeverity(a3.reasons, vitals),
                         reasons |-> a3.reasons,
                         suggestedAction |-> GetSuggestedAction(a3.reasons, vitals)]]

StalePatientsInclusive(ps, t, ttl) == {p \in DOMAIN ps : t - ps[p].lastUpdated >= ttl}

StalePatientsLenient(ps, t, ttl) == {p \in DOMAIN ps : t - ps[p].lastUpdated > 2 * ttl}

\* The patients cleanupStaleStates() deletes at instant t.
StalePatients(ps, t, ttl) == {p \in DOMAIN ps : t - ps[p].lastUpdated > ttl}

CleanupStaleStates(ps, t, ttl) ==
    [p \in (DOMAIN ps) \ StalePatients(ps, t, ttl) |-> ps[p]]

GetTrackedPatientsCountAlerting(ps) ==
    Cardinality({p \in DOMAIN ps : \E k \in Kinds : ps[p].violations[k] > 0})

GetTrackedPatientsCount(ps) == Cardinality(DOMAIN ps)

\* A counter as evaluate() reads it: state.violations[kind] || 0
CountOf(ps, p, kind) ==
    IF p \in DOMAIN ps /\ ps[p].violations[kind] # Undefined
    THEN ps[p].violations[kind]
    ELSE 0

\* The counters evaluate() may raise stay within the cap.
BelowCap(ps, p, cap) == \A k \in Kinds : CountOf(ps, p, k) < cap

\* Observation of the streaks: what a sample does to the run of consecutive
\* violating samples of each enabled kind, told from the samples alone.
StreakAfter(s, vitals, r) ==
    [k \in Kinds |->
        IF KindEnabled(k, r) /\ IsViolating(k, vitals, r) THEN s[k] + 1 ELSE 0]

ZeroStreak == [k \in Kinds |-> 0]

\* Nothing evaluated (touched: the instant of a patient's last evaluate()),
\* no sweep yet (evicted: the ids the last sweep logged as evicted; evictedAt:
\* the instant of a patient's last eviction; evictedHot: the patients whose
\* last eviction found the counter of a debounced kind, one with
\* persist_samples above 1, at its alerting level).
NoSweep ==
    [touched |-> [p \in Patients |-> Undefined], evicted |-> {}, sweeps |-> 0,
     evictedAt |-> [p \in Patients |-> Undefined], evictedHot |-> {}]

NoEval ==
    [called |-> FALSE, vitals |-> [patient_id |-> "p1", heart_rate |-> 75,
                                   oxygen_saturation |-> 98],
     result |-> NoAlert]

(***************************************************************************)
(* Metrics                                                                 *)
(***************************************************************************)
ZeroCounters ==
    [received |-> 0, validated |-> 0, alerts_published |-> 0,
     dropped_invalid |-> 0, dropped_publish_fail |-> 0]

Increment(c, name) == [c EXCEPT ![name] = @ + 1]

GetCountersLive(c) == [ref |-> "internal", value |-> c]

\* getCounters(): return { ...this.counters } - a new object holding the
\* five numbers (ref: which object the caller holds).
GetCounters(c) == [ref |-> "copy", value |-> c]

\* No getCounters() call yet (atTake: the counters at the call; writes: the
\* assignments the observer made to the returned object).
NoSnapshot ==
    [taken |-> FALSE, ref |-> "copy", value |-> ZeroCounters,
     atTake |-> ZeroCounters, writes |-> 0]

(***************************************************************************)
(* SchemaValidator                                                         *)
(***************************************************************************)
VitalsRecordedId == "schemas/events/vitals-recorded.json"
AlertRaisedId == "schemas/events/patient-alert-raised.json"
SchemaIds == {VitalsRecordedId, AlertRaisedId}

AjvAcceptsPayload(data) ==
    IF "payload" \in DOMAIN data /\ "conforms" \in DOMAIN data.payload
    THEN data.payload.conforms
    ELSE data.conforms

\* validateFn(data): the verdict of the compiled schema.  The schemas live in
\* the contracts repository; a value carries the verdict they give it.
AjvAccepts(data) == data.conforms

\* validate(schemaId, data).valid
Validate(loaded, added, schemaId, data) ==
    IF ~loaded THEN FALSE
    ELSE IF schemaId \notin added THEN FALSE
    ELSE AjvAccepts(data)

(***************************************************************************)
(* Messages                                                                *)
(***************************************************************************)
JsonNull == [conforms |-> FALSE, jsonNull |-> TRUE]
JsonScalar == [conforms |-> FALSE, scalar |-> 5]

\* A sample object as a producer writes it.
Sample(v, ok) ==
    [conforms |-> ok, patient_id |-> v.patient_id, heart_rate |-> v.heart_rate,
     oxygen_saturation |-> v.oxygen_saturation]

\* A sample wrapped in the event envelope.
Envelope(v, ok) ==
    [conforms |-> ok, event_name |-> "vitals.recorded", payload |-> Sample(v, ok)]

PipelineVitals ==
    {[patient_id |-> "p1", heart_rate |-> 130, oxygen_saturation |-> 98],
     [patient_id |-> "p1", heart_rate |-> 75, oxygen_saturation |-> 85],
     [patient_id |-> "p2", heart_rate |-> 75, oxygen_saturation |-> 98]}

\* msg.data: bytes that are not JSON, or the text of a JSON value.
MessageData ==
    {[json |-> FALSE, value |-> JsonNull]}
    \cup {[json |-> TRUE, value |-> x] : x \in {JsonNull, JsonScalar}}
    \cup {[json |-> TRUE, value |-> Envelope(v, TRUE)] : v \in PipelineVitals}
    \cup {[json |-> TRUE, value |-> Sample(v, ok)] :
             v \in {w \in PipelineVitals : w.patient_id = "p2"}, ok \in BOOLEAN}

\* msg.json(): the parsed value, or a thrown SyntaxError.
JsonParse(data) == [ok |-> data.json, value |-> data.value]

\* if (x): null (like 0, "" and false) does not pass.
Truthy(x) == x # JsonNull

\* if (vitalsData.payload) vitals = vitalsData.payload; else vitals = vitalsData
Unwrap(vitalsData) ==
    IF "payload" \in DOMAIN vitalsData /\ Truthy(vitalsData.payload)
    THEN vitalsData.payload
    ELSE vitalsData

\* The patient a payload is about, if it parses to a sample or an envelope.
EntityOf(data) ==
    IF data.json /\ "patient_id" \in DOMAIN Unwrap(data.value)
    THEN Unwrap(data.value).patient_id
    ELSE "none"

(***************************************************************************)
(* AlertPublisher.publishAlert, up to the awaited js.publish               *)
(***************************************************************************)
AlertEventAnonymous(vitals, result) ==
    [conforms |-> TRUE,
     event_name |-> "patient.alert.raised",
     payload |-> [patient_id |-> "unknown",
                  severity |-> result.severity,
                  reasons |-> result.reasons,
                  suggested_action |-> result.suggestedAction,
                  vitals_snapshot |-> [heart_rate |-> 0, oxygen_saturation |-> 0]]]

AlertEvent(vitals, result) ==
    [conforms |-> TRUE,
     event_name |-> "patient.alert.raised",
     payload |-> [patient_id |-> vitals.patient_id,
                  severity |-> result.severity,
                  reasons |-> result.reasons,
                  suggested_action |-> result.suggestedAction,
                  vitals_snapshot |-> [heart_rate |-> vitals.heart_rate,
                                       oxygen_saturation |-> vitals.oxygen_saturation]]]

EventIdOfMessage(drawn, msg) == msg

\* event_id: uuidv4().  A version-4 UUID is taken to be fresh: the id differs
\* from the `drawn` ids built before it, whatever the message handled.
NewEventId(drawn, msg) == drawn + 1

\* The event one publishAlert call builds for delivery msg, as the log of
\* built events keeps it: the event, its event_id and what became of it.
BuiltAlert(drawn, msg, vitals, result, outcome) ==
    [event_id |-> NewEventId(drawn, msg), msg |-> msg,
     event |-> AlertEvent(vitals, result), outcome |-> outcome]

\* "invalid": the event fails validateAlertRaised and publishAlert returns
\* false; "noconn": getConnection() throws and publishAlert returns false;
\* "await": js.publish has been called and is pending.
PublishAlertBegin(vitals, result, loaded, added, conn) ==
    IF ~Validate(loaded, added, AlertRaisedId, AlertEvent(vitals, result))
    THEN "invalid"
    ELSE IF ~conn THEN "noconn"
    ELSE "await"

(***************************************************************************)
(* NatsClient                                                              *)
(***************************************************************************)
\* The callers of connect(): main() and any other holder of the client.
Callers == {"main", "other1", "other2"}

\* A fresh client (connecting: the field; call: where each caller's last
\* connect() stands - "skipped" is the early return of the guard; pending:
\* connect(options) attempts in progress; open: underlying connections open;
\* closing: close() is awaiting nc.drain()).
NoConn ==
    [connecting |-> FALSE, call |-> [c \in Callers |-> "idle"], pending |-> 0,
     open |-> 0, closing |-> FALSE]

\* The client as main() has it after `await natsClient.connect()`.
Established == [NoConn EXCEPT !.call["main"] = "returned", !.open = 1]

ConnectGuardIgnoresConnecting(nc, connecting) == nc

\* if (this.nc || this.connecting) return;
ConnectGuard(nc, connecting) == nc \/ connecting

\* getConnection(): the connection, or the thrown
\* 'NATS connection not established'.
GetConnection(nc) == IF nc THEN "connection" ELSE "throws"

\* connect() is called: it returns at the guard, or sets connecting and
\* awaits connect(this.options).
ConnectCalled(c) ==
    /\ client.call[c] # "awaiting"
    /\ IF ConnectGuard(connected, client.connecting)
       THEN client' = [client EXCEPT !.call[c] = "skipped"]
       ELSE client' = [client EXCEPT !.call[c] = "awaiting", !.connecting = TRUE,
                                 !.pending = @ + 1]
    /\ UNCHANGED <<engineVars, startVars, pipeVars, mainVars, apiVars>>

\* connect(this.options) resolves: this.nc is assigned; finally clears
\* connecting; connect() returns.
ConnectResolves(c) ==
    /\ client.call[c] = "awaiting"
    /\ connected' = TRUE
    /\ client' = [client EXCEPT !.call[c] = "returned", !.connecting = FALSE,
                            !.pending = @ - 1, !.open = @ + 1]
    /\ UNCHANGED <<counters, schemasLoaded, schemas, broker, pc, cur, alerts>>
    /\ UNCHANGED <<engineVars, startVars, mainVars, apiVars>>

\* connect(this.options) rejects: the catch logs and rethrows; finally
\* clears connecting; this.nc is as it was.
ConnectRejects(c) ==
    /\ client.call[c] = "awaiting"
    /\ client' = [client EXCEPT !.call[c] = "threw", !.connecting = FALSE,
                            !.pending = @ - 1]
    /\ UNCHANGED <<engineVars, startVars, pipeVars, mainVars, apiVars>>

\* close() is called: with a connection it awaits nc.drain(), without one
\* it returns.  The calls that returned before it no longer count.
CloseCalled ==
    /\ ~client.closing
    /\ client' = [client EXCEPT !.closing = connected,
                            !.call = [c \in Callers |->
                                         IF @[c] = "awaiting" THEN "awaiting" ELSE "idle"]]
    /\ UNCHANGED <<engineVars, startVars, pipeVars, mainVars, apiVars>>

\* nc.drain() resolves: this.nc = null.
CloseCompletes ==
    /\ client.closing
    /\ connected' = FALSE
    /\ client' = [client EXCEPT !.closing = FALSE, !.open = 0]
    /\ UNCHANGED <<counters, schemasLoaded, schemas, broker, pc, cur, alerts>>
    /\ UNCHANGED <<engineVars, startVars, mainVars, apiVars>>

(***************************************************************************)
(* VitalsConsumer.start and connectAndConsume                              *)
(***************************************************************************)
MaxRetries == 30
BaseDelayMs == 2000

\* Error messages are sequences of words; String.prototype.includes is the
\* search for the needle as a contiguous run of the message.
Includes(message, needle) ==
    \E i \in 0..(Len(message) - Len(needle)) :
        SubSeq(message, i + 1, i + Len(needle)) = needle

NoError == [code |-> "none", message |-> << >>]
ErrConsumerNotFound == [code |-> "404", message |-> <<"consumer", "not", "found">>]
ErrStreamNotFound == [code |-> "404", message |-> <<"stream", "not", "found">>]
ErrNoResponders == [code |-> "503", message |-> <<"no", "responders">>]
ErrUnavailable == [code |-> "500", message |-> <<"service", "unavailable">>]
ErrAlreadyExists == [code |-> "400", message |-> <<"consumer", "already", "exists">>]
ErrPermission == [code |-> "403", message |-> <<"permissions", "violation">>]
\* A TypeError carries no code: err?.code ?? '' is ''.
ErrTypeError == [code |-> "", message |-> <<"cannot", "read", "properties", "of", "null">>]

\* Failures any JetStream call can meet, whatever the consumer's existence.
BackendErrors == {ErrNoResponders, ErrUnavailable, ErrPermission}

\* What js.consumers.get can produce.
GetOutcomes(exists) ==
    IF exists THEN {NoError} \cup BackendErrors
    ELSE {ErrConsumerNotFound, ErrStreamNotFound} \cup BackendErrors

\* What jsm.consumers.add can produce: the name may have been taken by
\* another instance since the fetch.
AddOutcomes(exists) ==
    IF exists THEN {NoError, ErrAlreadyExists} \cup BackendErrors
    ELSE {NoError, ErrStreamNotFound} \cup BackendErrors

IsNotFoundAny(err) == TRUE

IsRetryableAll(err) == TRUE

\* start(): isRetryable
IsRetryable(err) ==
    \/ err.code = "503"
    \/ Includes(err.message, <<"stream", "not", "found">>)
    \/ Includes(err.message, <<"unavailable">>)
    \/ Includes(err.message, <<"consumer", "not", "found">>)

\* connectAndConsume: the fetch error that leads to creating the consumer.
IsNotFound(err) ==
    \/ Includes(err.message, <<"consumer", "not", "found">>)
    \/ err.code = "404"

RetryAllowedOffByOne(err, n) == IsRetryable(err) /\ n <= MaxRetries

\* start(): isRetryable && attempt < maxRetries
RetryAllowed(err, n) == IsRetryable(err) /\ n < MaxRetries

\* No js.consumers.get call has been made yet.
NotCalled == [code |-> "unset", message |-> << >>]

\* lastGet: what the last js.consumers.get call produced.
NoAcq == [invocations |-> 1, failures |-> 0, waitedMs |-> 0, retryableOnly |-> TRUE,
          raced |-> FALSE, lastGet |-> NotCalled]

\* The acquisition as the first attempt leaves it when the fetch succeeds.
Acquired == [NoAcq EXCEPT !.lastGet = NoError]

\* The catch block of start(): connectAndConsume rejected with err.
Catch(err) ==
    /\ lastError' = err
    /\ startPc' = IF RetryAllowed(err, attempt) THEN "sleeping" ELSE "failed"
    /\ acq' = [acq EXCEPT !.failures = @ + 1,
                          !.retryableOnly = @ /\ IsRetryable(err),
                          !.raced = (err = ErrAlreadyExists /\ startPc = "add"),
                          !.lastGet = IF startPc \in {"get", "reget"} THEN err ELSE @]
    /\ UNCHANGED attempt

\* await js.consumers.get(...), first call of connectAndConsume.
FetchConsumer ==
    /\ startPc = "get"
    /\ \E out \in GetOutcomes(consumerExists) :
          IF out = NoError
          THEN /\ startPc' = "consume"
               /\ acq' = [acq EXCEPT !.lastGet = out]
               /\ UNCHANGED <<attempt, lastError>>
          ELSE IF IsNotFound(out)
          THEN /\ startPc' = "add"
               /\ acq' = [acq EXCEPT !.lastGet = out]
               /\ UNCHANGED <<attempt, lastError>>
          ELSE Catch(out)
    /\ UNCHANGED consumerExists
    /\ UNCHANGED <<engineVars, pipeVars, mainVars, apiVars, natsVars>>

\* await nc.jetstreamManager(); await jsm.consumers.add(...)
CreateConsumer ==
    /\ startPc = "add"
    /\ \E out \in AddOutcomes(consumerExists) :
          IF out = NoError
          THEN /\ startPc' = "reget"
               /\ consumerExists' = TRUE
               /\ UNCHANGED <<attempt, lastError, acq>>
          ELSE Catch(out) /\ UNCHANGED consumerExists
    /\ UNCHANGED <<engineVars, pipeVars, mainVars, apiVars, natsVars>>

\* await js.consumers.get(...) after the create.
RefetchConsumer ==
    /\ startPc = "reget"
    /\ \E out \in GetOutcomes(consumerExists) :
          IF out = NoError
          THEN /\ startPc' = "consume"
               /\ acq' = [acq EXCEPT !.lastGet = out]
               /\ UNCHANGED <<attempt, lastError>>
          ELSE Catch(out)
    /\ UNCHANGED consumerExists
    /\ UNCHANGED <<engineVars, pipeVars, mainVars, apiVars, natsVars>>

\* await consumer.consume({max_messages: 100})
StartConsume ==
    /\ startPc = "consume"
    /\ \E out \in {NoError} \cup BackendErrors :
          IF out = NoError
          THEN startPc' = "consuming" /\ UNCHANGED <<attempt, lastError, acq>>
          ELSE Catch(out)
    /\ UNCHANGED consumerExists
    /\ UNCHANGED <<engineVars, pipeVars, mainVars, apiVars, natsVars>>

\* The for-await loop over the messages rejects.
ConsumeFails ==
    /\ startPc = "consuming"
    /\ \E err \in BackendErrors : Catch(err)
    /\ UNCHANGED consumerExists
    /\ UNCHANGED <<engineVars, pipeVars, mainVars, apiVars, natsVars>>

\* The for-await loop ends: connectAndConsume and start() return.
ConsumeEnds ==
    /\ startPc = "consuming"
    /\ startPc' = "returned"
    /\ UNCHANGED <<attempt, lastError, consumerExists, acq>>
    /\ UNCHANGED <<engineVars, pipeVars, mainVars, apiVars, natsVars>>

\* The setTimeout of the retry resolves; continue; the next iteration calls
\* connectAndConsume again, or the loop ends and start() throws lastError.
RetryAfterDelay ==
    /\ startPc = "sleeping"
    /\ attempt' = attempt + 1
    /\ IF attempt + 1 <= MaxRetries
       THEN /\ startPc' = "get"
            /\ acq' = [acq EXCEPT !.waitedMs = @ + BaseDelayMs,
                                  !.invocations = @ + 1,
                                  !.raced = FALSE]
       ELSE /\ startPc' = "failed"
            /\ acq' = [acq EXCEPT !.waitedMs = @ + BaseDelayMs]
    /\ UNCHANGED <<lastError, consumerExists>>
    /\ UNCHANGED <<engineVars, pipeVars, mainVars, apiVars, natsVars>>

\* Another instance of the service creates the durable consumer.
OtherInstanceCreates ==
    /\ ~consumerExists
    /\ startPc \in {"get", "add", "sleeping"}
    /\ consumerExists' = TRUE
    /\ UNCHANGED <<startPc, attempt, lastError, acq>>
    /\ UNCHANGED <<engineVars, pipeVars, mainVars, apiVars, natsVars>>

(***************************************************************************)
(* main(): the start() promise is not awaited; its rejection goes to the   *)
(* .catch callback attached to it, not to main().catch.                    *)
(***************************************************************************)
\* The process after main() has returned: alive, start() still pending.
Running == [status |-> "running", startRejected |-> FALSE]

\* The process has not called process.exit.
Alive == proc.status \in {"running", "stopping"}

\* vitalsConsumer.start().catch((err) => logger.error(..., 'Consumer failed'))
\* The callback logs and returns; nothing in it ends the process.
ConsumerFailed ==
    /\ Alive
    /\ startPc = "failed"
    /\ ~proc.startRejected
    /\ proc' = [proc EXCEPT !.startRejected = TRUE]
    /\ UNCHANGED <<engineVars, startVars, pipeVars, apiVars, natsVars>>

(***************************************************************************)
(* VitalsConsumer.handleMessage                                            *)
(***************************************************************************)
MaxDeliverPlusOne == 5 + 1

\* max_deliver of the durable consumer's configuration
MaxDeliver == 5
NakDelayMs == 2000

NoDelivery ==
    [msg |-> 0, status |-> "none", parseFailed |-> FALSE, validatorCalled |-> FALSE,
     validatorValid |-> FALSE, evalCalls |-> 0, shouldAlert |-> FALSE,
     publishCalls |-> 0, begun |-> "none", transportCalls |-> 0, published |-> "none",
     acks |-> 0, naks |-> 0, nakDelay |-> 0, before |-> ZeroCounters]

AfterPublishAlwaysAck(published, c, o) ==
    [counters |-> Increment(c, "alerts_published"),
     settle |-> "ack",
     obs |-> [o EXCEPT !.published = IF published THEN "true" ELSE "false",
                       !.acks = @ + 1]]

AfterPublishCountsBoth(published, c, o) ==
    IF published
    THEN [counters |-> Increment(Increment(c, "alerts_published"), "dropped_publish_fail"),
          settle |-> "ack",
          obs |-> [o EXCEPT !.published = "true", !.acks = @ + 1]]
    ELSE [counters |-> Increment(c, "dropped_publish_fail"),
          settle |-> "nak",
          obs |-> [o EXCEPT !.published = "false", !.naks = @ + 1,
                            !.nakDelay = NakDelayMs]]

\* if (published) { incrementAlertsPublished(); msg.ack() }
\* else { incrementDroppedPublishFail(); msg.nak(2000) }
AfterPublish(published, c, o) ==
    IF published
    THEN [counters |-> Increment(c, "alerts_published"),
          settle |-> "ack",
          obs |-> [o EXCEPT !.published = "true", !.acks = @ + 1]]
    ELSE [counters |-> Increment(c, "dropped_publish_fail"),
          settle |-> "nak",
          obs |-> [o EXCEPT !.published = "false", !.naks = @ + 1,
                            !.nakDelay = NakDelayMs]]

DropInvalidNak(c, ps, o) ==
    [flow |-> "return", settle |-> "nak",
     counters |-> Increment(c, "dropped_invalid"), states |-> ps,
     eval |-> NoEval, obs |-> [o EXCEPT !.naks = @ + 1, !.nakDelay = NakDelayMs]]

\* incrementDroppedInvalid(); msg.ack(); return
DropInvalid(c, ps, o) ==
    [flow |-> "return", settle |-> "ack",
     counters |-> Increment(c, "dropped_invalid"), states |-> ps,
     eval |-> NoEval, obs |-> [o EXCEPT !.acks = @ + 1]]

AckNoAlertViaPublisher(c, ps, ev, o) ==
    [flow |-> "return", settle |-> "ack",
     counters |-> Increment(c, "alerts_published"), states |-> ps,
     eval |-> ev, obs |-> [o EXCEPT !.acks = @ + 1, !.publishCalls = @ + 1]]

\* if (!alertResult.shouldAlert) { msg.ack(); return }
AckNoAlert(c, ps, ev, o) ==
    [flow |-> "return", settle |-> "ack", counters |-> c, states |-> ps,
     eval |-> ev, obs |-> [o EXCEPT !.acks = @ + 1]]

\* handleMessage from its entry to its return, its throw, or its suspension
\* in the awaited js.publish.
HandleMessageSync(data, c, ps, t, r, loaded, added, conn) ==
    LET c0 == Increment(c, "received")
        o0 == [NoDelivery EXCEPT !.before = c]
        parsed == JsonParse(data)
    IN IF ~parsed.ok
       THEN DropInvalid(c0, ps, [o0 EXCEPT !.parseFailed = TRUE])
       ELSE IF parsed.value = JsonNull
       THEN \* vitalsData.payload on null: TypeError
            [flow |-> "throw", settle |-> "none", counters |-> c0, states |-> ps,
             eval |-> NoEval, obs |-> o0]
       ELSE LET vitalsData == parsed.value
                vitals == Unwrap(vitalsData)
                valid == Validate(loaded, added, VitalsRecordedId, vitalsData)
                o1 == [o0 EXCEPT !.validatorCalled = TRUE, !.validatorValid = valid]
            IN IF ~valid
               THEN DropInvalid(c0, ps, o1)
               ELSE LET c1 == Increment(c0, "validated")
                        out == Evaluate(ps, vitals, t, r)
                        ev == [called |-> TRUE, vitals |-> vitals, result |-> out.result]
                        o2 == [o1 EXCEPT !.evalCalls = @ + 1,
                                         !.shouldAlert = out.result.shouldAlert]
                    IN IF ~out.result.shouldAlert
                       THEN AckNoAlert(c1, out.states, ev, o2)
                       ELSE LET begun == PublishAlertBegin(vitals, out.result,
                                                           loaded, added, conn)
                                o3 == [o2 EXCEPT !.publishCalls = @ + 1, !.begun = begun]
                            IN IF begun = "await"
                               THEN [flow |-> "await", settle |-> "none",
                                     counters |-> c1, states |-> out.states,
                                     eval |-> ev,
                                     obs |-> [o3 EXCEPT !.transportCalls = @ + 1]]
                               ELSE LET a == AfterPublish(FALSE, c1, o3)
                                    IN [flow |-> "return", settle |-> a.settle,
                                        counters |-> a.counters,
                                        states |-> out.states, eval |-> ev,
                                        obs |-> a.obs]

\* JetStream: what a delivery and its settlement do to the message.  A message
\* is redelivered after a nak until it has been delivered max_deliver times.
Settled(m, settle) ==
    [m EXCEPT !.state = CASE settle = "ack" -> "acked"
                          [] settle = "nak" -> IF m.deliveries < MaxDeliver
                                               THEN "pending" ELSE "exhausted"
                          [] OTHER -> "delivered",
              !.naks = IF settle = "nak" THEN @ + 1 ELSE @,
              !.ackedAt = IF settle = "ack" THEN m.deliveries ELSE @]

\* JetStream delivers first deliveries in stream order.
Deliverable(i) ==
    /\ broker[i].state = "pending"
    /\ broker[i].deliveries < MaxDeliver
    /\ broker[i].deliveries = 0 => \A j \in 1..(i - 1) : broker[j].deliveries > 0

\* consumer.consume({max_messages: 100}): the messages the client buffers.
MaxMessages == 100

LoopReadyAlways == TRUE

\* The for-await loop is at its head: the handler of the previous message,
\* which the loop body awaits, has returned.
LoopReady == pc = "idle"

\* The messages delivered to a handler that is still running.
InFlight ==
    {i \in 1..Len(broker) :
        broker[i].state = "delivered" /\ ~(cur.msg = i /\ cur.status = "threw")}

\* A producer publishes a vitals.recorded message on the stream.
Produce(data) ==
    /\ Len(broker) < MaxMsgs
    /\ broker' = Append(broker, [data |-> data, state |-> "pending", deliveries |-> 0,
                                 naks |-> 0, ackedAt |-> 0])
    /\ UNCHANGED <<counters, schemasLoaded, schemas, connected, pc, cur, alerts>>
    /\ UNCHANGED <<engineVars, startVars, mainVars, apiVars, natsVars>>

\* for await (const msg of messages) await this.handleMessage(msg)
HandleMessage(i) ==
    /\ Alive
    /\ startPc = "consuming"
    /\ LoopReady
    /\ Deliverable(i)
    \* h: what the handler does up to its return, throw or suspension; m: the
    \* message once JetStream has counted this delivery.
    /\ \E h \in {HandleMessageSync(broker[i].data, counters, patientStates, now, rules,
                                    schemasLoaded, schemas, connected)},
          m \in {[broker[i] EXCEPT !.deliveries = @ + 1]} :
          /\ h.eval.called =>
                 BelowCap(patientStates, h.eval.vitals.patient_id, PipelineMaxCount)
          /\ counters' = h.counters
          /\ patientStates' = h.states
          /\ lastEval' = IF h.eval.called THEN h.eval ELSE lastEval
          /\ streak' = IF h.eval.called
                       THEN [streak EXCEPT ![h.eval.vitals.patient_id] =
                                               StreakAfter(@, h.eval.vitals, rules)]
                       ELSE streak
          /\ sweepObs' = IF h.eval.called
                         THEN [sweepObs EXCEPT !.touched[h.eval.vitals.patient_id] = now]
                         ELSE sweepObs
          /\ broker' = [broker EXCEPT ![i] = Settled(m, h.settle)]
          /\ pc' = IF h.flow = "await" THEN "publishing" ELSE "idle"
          /\ alerts' = IF h.obs.publishCalls = 1
                       THEN Append(alerts,
                                   BuiltAlert(Len(alerts), i, h.eval.vitals, h.eval.result,
                                              IF h.flow = "await" THEN "pending"
                                              ELSE h.obs.begun))
                       ELSE alerts
          /\ cur' = [h.obs EXCEPT !.msg = i,
                                  !.status = CASE h.flow = "await" -> "awaiting"
                                               [] h.flow = "throw" -> "threw"
                                               [] OTHER -> "returned"]
          /\ IF h.flow = "throw"
             THEN Catch(ErrTypeError)
             ELSE UNCHANGED <<startPc, attempt, lastError, acq>>
    /\ UNCHANGED <<rules, now, nextSweep, consumerExists, schemasLoaded, schemas, connected>>
    /\ UNCHANGED <<mainVars, apiVars, natsVars>>

\* The awaited js.publish settles: publishAlert returns true, or catches the
\* rejection and returns false; handleMessage resumes.
PublishSettles(ok) ==
    /\ Alive
    /\ pc = "publishing"
    /\ LET a == AfterPublish(ok, counters, cur)
       IN /\ counters' = a.counters
          /\ cur' = [a.obs EXCEPT !.status = "returned"]
          /\ broker' = [broker EXCEPT ![cur.msg] = Settled(@, a.settle)]
          /\ alerts' = [alerts EXCEPT ![Len(alerts)].outcome =
                                          IF ok THEN "published" ELSE "failed"]
    /\ pc' = "idle"
    /\ UNCHANGED <<schemasLoaded, schemas, connected>>
    /\ UNCHANGED <<engineVars, startVars, mainVars, apiVars, natsVars>>

PublishResolves == PublishSettles(TRUE)

PublishRejects == PublishSettles(FALSE)

\* SIGINT or SIGTERM: shutdown() logs, awaits apiServer.stop() and then, in
\* natsClient.close(), nc.drain().  Nothing stops the consume loop or waits
\* for a running handler.
ShutdownSignal ==
    /\ proc.status = "running"
    /\ proc' = [proc EXCEPT !.status = "stopping"]
    /\ UNCHANGED <<engineVars, startVars, pipeVars, apiVars, natsVars>>

\* nc.drain() resolves: this.nc = null; process.exit(0).  The drain closes
\* the subscriptions and the connection; a handler suspended in its publish
\* is not part of what it waits for.
ShutdownCompletes ==
    /\ proc.status = "stopping"
    /\ connected' = FALSE
    /\ client' = [client EXCEPT !.open = 0]
    /\ proc' = [proc EXCEPT !.status = "exited0"]
    /\ UNCHANGED <<counters, schemasLoaded, schemas, broker, pc, cur, alerts>>
    /\ UNCHANGED <<engineVars, startVars, apiVars>>

(***************************************************************************)
(* The engine on its own: samples handed straight to evaluate(), the clock *)
(* and the cleanup interval.                                               *)
(***************************************************************************)
InitEngine ==
    /\ rules \in RulesConfigs
    /\ patientStates = << >>
    /\ now = 0
    /\ nextSweep = StateTtl
    /\ lastEval = NoEval
    /\ streak = [p \in Patients |-> ZeroStreak]
    /\ sweepObs = NoSweep
    /\ startPc = "consuming"
    /\ attempt = 1
    /\ lastError = NoError
    /\ consumerExists = TRUE
    /\ acq = Acquired
    /\ counters = ZeroCounters
    /\ schemasLoaded = TRUE
    /\ schemas = SchemaIds
    /\ connected = TRUE
    /\ broker = << >>
    /\ pc = "idle"
    /\ cur = NoDelivery
    /\ alerts = << >>
    /\ proc = Running
    /\ snapshot = NoSnapshot
    /\ client = Established

EngineEvaluate(vitals) ==
    /\ BelowCap(patientStates, vitals.patient_id, MaxCount)
    /\ LET out == Evaluate(patientStates, vitals, now, rules)
       IN /\ patientStates' = out.states
          /\ lastEval' = [called |-> TRUE, vitals |-> vitals, result |-> out.result]
          /\ streak' = [streak EXCEPT ![vitals.patient_id] = StreakAfter(@, vitals, rules)]
          /\ sweepObs' = [sweepObs EXCEPT !.touched[vitals.patient_id] = now]
    /\ UNCHANGED <<rules, now, nextSweep>>
    /\ UNCHANGED <<startVars, pipeVars, mainVars, apiVars, natsVars>>

\* Time passes; a due interval timer fires before the clock moves past it.
Tick ==
    /\ now < MaxTime
    /\ now < nextSweep
    /\ now' = now + 1
    /\ UNCHANGED <<rules, patientStates, nextSweep, lastEval, streak, sweepObs>>
    /\ UNCHANGED <<startVars, pipeVars, mainVars, apiVars, natsVars>>

\* The setInterval callback of startCleanupInterval.
Sweep ==
    /\ now = nextSweep
    /\ patientStates' = CleanupStaleStates(patientStates, now, StateTtl)
    /\ nextSweep' = nextSweep + StateTtl
    /\ streak' = [p \in Patients |->
                    IF p \in StalePatients(patientStates, now, StateTtl)
                    THEN ZeroStreak ELSE streak[p]]
    /\ lastEval' = [lastEval EXCEPT !.called = FALSE]
    /\ sweepObs' = [sweepObs EXCEPT !.evicted = StalePatients(patientStates, now, StateTtl),
                                    !.sweeps = @ + 1,
                                    !.evictedAt =
                                        [p \in Patients |->
                                            IF p \in StalePatients(patientStates, now, StateTtl)
                                            THEN now ELSE @[p]],
                                    !.evictedHot =
                                        (@ \ StalePatients(patientStates, now, StateTtl))
                                        \cup {p \in StalePatients(patientStates, now, StateTtl) :
                                                 \E k \in Kinds :
                                                    /\ KindEnabled(k, rules)
                                                    /\ PersistSamples(k, rules) > 1
                                                    /\ CountOf(patientStates, p, k)
                                                           >= PersistSamples(k, rules)}]
    /\ UNCHANGED <<rules, now>>
    /\ UNCHANGED <<startVars, pipeVars, mainVars, apiVars, natsVars>>

NextEngine ==
    \/ \E vitals \in VitalsData : EngineEvaluate(vitals)

SpecEngine == InitEngine /\ [][NextEngine]_vars

(***************************************************************************)
(* The engine under the README's rule file with its clock running and the  *)
(* cleanup interval firing every TTL.                                      *)
(***************************************************************************)
InitSweep ==
    /\ InitEngine
    /\ rules = TestRules

NextSweep ==
    \/ \E vitals \in VitalsData : EngineEvaluate(vitals)
    \/ Tick
    \/ Sweep

SpecSweep == InitSweep /\ [][NextSweep]_vars

(***************************************************************************)
(* Severity and suggested action: evaluate() on readings at and around     *)
(* every cutoff of calculateSeverity and getSuggestedAction, under rule    *)
(* files that alert on the first violating sample.                         *)
(***************************************************************************)
CutoffHeartRates == {39, 40, 44, 45, 49, 75, 121, 130, 131, 140, 141}
CutoffSaturations == {80, 84, 85, 89, 90, 92, 98}

CutoffVitals ==
    [patient_id : {"p1"}, heart_rate : CutoffHeartRates,
     oxygen_saturation : CutoffSaturations]

\* Rule files with each direction present or absent; a SpO2 threshold above
\* the moderate cutoff is among them.
SeverityRules ==
    [hr_high : {Undefined, HighThreshold},
     hr_low : {Undefined, LowThreshold},
     hr_persist : {1},
     spo2_low : {Undefined, Spo2Threshold, Spo2Threshold + 5},
     spo2_persist : {Undefined}]

InitSeverity ==
    /\ rules \in SeverityRules
    /\ patientStates = << >>
    /\ now = 0
    /\ nextSweep = StateTtl
    /\ lastEval = NoEval
    /\ streak = [p \in Patients |-> ZeroStreak]
    /\ sweepObs = NoSweep
    /\ startPc = "consuming"
    /\ attempt = 1
    /\ lastError = NoError
    /\ consumerExists = TRUE
    /\ acq = Acquired
    /\ counters = ZeroCounters
    /\ schemasLoaded = TRUE
    /\ schemas = SchemaIds
    /\ connected = TRUE
    /\ broker = << >>
    /\ pc = "idle"
    /\ cur = NoDelivery
    /\ alerts = << >>
    /\ proc = Running
    /\ snapshot = NoSnapshot
    /\ client = Established

NextSeverity ==
    \/ \E vitals \in CutoffVitals : EngineEvaluate(vitals)

SpecSeverity == InitSeverity /\ [][NextSeverity]_vars

(***************************************************************************)
(* Subscription acquisition: start() against a backend that may not be     *)
(* ready, with other instances racing for the same durable name.           *)
(***************************************************************************)
InitAcquire ==
    /\ rules = TestRules
    /\ patientStates = << >>
    /\ now = 0
    /\ nextSweep = StateTtl
    /\ lastEval = NoEval
    /\ streak = [p \in Patients |-> ZeroStreak]
    /\ sweepObs = NoSweep
    /\ startPc = "get"
    /\ attempt = 1
    /\ lastError = NoError
    /\ consumerExists \in BOOLEAN
    /\ acq = NoAcq
    /\ counters = ZeroCounters
    /\ schemasLoaded = TRUE
    /\ schemas = SchemaIds
    /\ connected = TRUE
    /\ broker = << >>
    /\ pc = "idle"
    /\ cur = NoDelivery
    /\ alerts = << >>
    /\ proc = Running
    /\ snapshot = NoSnapshot
    /\ client = Established

NextAcquire ==
    \/ FetchConsumer
    \/ CreateConsumer
    \/ RefetchConsumer
    \/ StartConsume
    \/ ConsumeFails
    \/ ConsumeEnds
    \/ RetryAfterDelay
    \/ OtherInstanceCreates
    \/ ConsumerFailed

SpecAcquire == InitAcquire /\ [][NextAcquire]_vars

(***************************************************************************)
(* start() with a sample already waiting on the stream: the acquisition    *)
(* and the consume loop that follows it.                                   *)
(***************************************************************************)
WaitingSample ==
    [data |-> [json |-> TRUE,
               value |-> Envelope([patient_id |-> "p1", heart_rate |-> 75,
                                   oxygen_saturation |-> 85], TRUE)],
     state |-> "pending", deliveries |-> 0, naks |-> 0, ackedAt |-> 0]

InitStart ==
    /\ rules = TestRules
    /\ patientStates = << >>
    /\ now = 0
    /\ nextSweep = StateTtl
    /\ lastEval = NoEval
    /\ streak = [p \in Patients |-> ZeroStreak]
    /\ sweepObs = NoSweep
    /\ startPc = "get"
    /\ attempt = 1
    /\ lastError = NoError
    /\ consumerExists \in BOOLEAN
    /\ acq = NoAcq
    /\ counters = ZeroCounters
    /\ schemasLoaded = TRUE
    /\ schemas = SchemaIds
    /\ connected = TRUE
    /\ broker = <<WaitingSample>>
    /\ pc = "idle"
    /\ cur = NoDelivery
    /\ alerts = << >>
    /\ proc = Running
    /\ snapshot = NoSnapshot
    /\ client = Established

NextStart ==
    \/ FetchConsumer
    \/ CreateConsumer
    \/ RefetchConsumer
    \/ StartConsume
    \/ ConsumeFails
    \/ ConsumeEnds
    \/ RetryAfterDelay
    \/ OtherInstanceCreates
    \/ ConsumerFailed
    \/ \E i \in 1..Len(broker) : HandleMessage(i)
    \/ PublishResolves
    \/ PublishRejects

SpecStart == InitStart /\ [][NextStart]_vars

(***************************************************************************)
(* The message pipeline: the subscription has been acquired on the first   *)
(* attempt and the consume loop handles what producers put on the stream.  *)
(* Every handler settles its message within the ack-wait window.           *)
(***************************************************************************)
ValidatorStates ==
    {<<TRUE, added>> : added \in SUBSET SchemaIds} \cup {<<FALSE, {}>>}

Init ==
    /\ rules = TestRules
    /\ patientStates = << >>
    /\ now = 0
    /\ nextSweep = StateTtl
    /\ lastEval = NoEval
    /\ streak = [p \in Patients |-> ZeroStreak]
    /\ sweepObs = NoSweep
    /\ startPc = "consuming"
    /\ attempt = 1
    /\ lastError = NoError
    /\ consumerExists = TRUE
    /\ acq = Acquired
    /\ counters = ZeroCounters
    /\ \E v \in ValidatorStates : schemasLoaded = v[1] /\ schemas = v[2]
    /\ connected = TRUE
    /\ broker = << >>
    /\ pc = "idle"
    /\ cur = NoDelivery
    /\ alerts = << >>
    /\ proc = Running
    /\ snapshot = NoSnapshot
    /\ client = Established

Next ==
    \/ \E data \in MessageData : Produce(data)
    \/ \E i \in 1..Len(broker) : HandleMessage(i)
    \/ PublishResolves
    \/ PublishRejects
    \/ ConsumerFailed

Spec == Init /\ [][Next]_vars

(***************************************************************************)
(* The Metrics object with an observer: a caller of getCounters()          *)
(* (handleMetrics, the tests) that keeps the returned object and assigns   *)
(* to its fields, while the service goes on counting.                      *)
(***************************************************************************)

MaxIncrements == 3
MaxWrites == 1

CounterNames == DOMAIN ZeroCounters

RECURSIVE SumOver(_, _)
SumOver(c, names) ==
    IF names = {} THEN 0
    ELSE LET n == CHOOSE x \in names : TRUE
         IN c[n] + SumOver(c, names \ {n})

\* What the observer reads in the object it holds.
SnapshotRead == IF snapshot.ref = "internal" THEN counters ELSE snapshot.value

\* incrementReceived(), incrementValidated(), ...: this.counters.<name>++
IncrementCounter(name) ==
    /\ SumOver(counters, CounterNames) < MaxIncrements
    /\ counters' = Increment(counters, name)
    /\ UNCHANGED <<schemasLoaded, schemas, connected, broker, pc, cur, alerts>>
    /\ UNCHANGED <<engineVars, startVars, mainVars, apiVars, natsVars>>

\* reset(): this.counters = { received: 0, ... } - a new object; one handed
\* out earlier keeps the values it had.
MetricsReset ==
    /\ counters # ZeroCounters
    /\ counters' = ZeroCounters
    /\ snapshot' = IF snapshot.taken /\ snapshot.ref = "internal"
                   THEN [snapshot EXCEPT !.ref = "copy", !.value = counters]
                   ELSE snapshot
    /\ UNCHANGED <<schemasLoaded, schemas, connected, broker, pc, cur, alerts>>
    /\ UNCHANGED <<engineVars, startVars, mainVars, natsVars>>

\* const counters = this.metrics.getCounters()
ObserverGetsCounters ==
    /\ ~snapshot.taken
    /\ LET o == GetCounters(counters)
       IN snapshot' = [taken |-> TRUE, ref |-> o.ref, value |-> o.value,
                       atTake |-> counters, writes |-> 0]
    /\ UNCHANGED <<engineVars, startVars, pipeVars, mainVars, natsVars>>

\* The observer assigns to a field of the object it was handed; the
\* assignment lands in whichever object that is.
ObserverWrites(name) ==
    /\ snapshot.taken
    /\ snapshot.writes < MaxWrites
    /\ IF snapshot.ref = "internal"
       THEN /\ counters' = Increment(counters, name)
            /\ snapshot' = [snapshot EXCEPT !.writes = @ + 1]
       ELSE /\ snapshot' = [snapshot EXCEPT !.value = Increment(@, name),
                                            !.writes = @ + 1]
            /\ UNCHANGED counters
    /\ UNCHANGED <<schemasLoaded, schemas, connected, broker, pc, cur, alerts>>
    /\ UNCHANGED <<engineVars, startVars, mainVars, natsVars>>

InitMetrics ==
    /\ Init
    /\ schemasLoaded /\ schemas = SchemaIds

NextMetrics ==
    \/ \E name \in CounterNames : IncrementCounter(name)
    \/ MetricsReset
    \/ ObserverGetsCounters
    \/ \E name \in CounterNames : ObserverWrites(name)

SpecMetrics == InitMetrics /\ [][NextMetrics]_vars

(***************************************************************************)
(* The pipeline working through a stream that already holds one patient's  *)
(* samples, high heart rates and normal readings, with the alert stream    *)
(* failing and recovering at any moment.                                   *)
(***************************************************************************)

MaxRetryMsgs == 3

RetryVitals ==
    {[patient_id |-> "p1", heart_rate |-> 130, oxygen_saturation |-> 98],
     [patient_id |-> "p1", heart_rate |-> 75, oxygen_saturation |-> 98]}

RetryData == {[json |-> TRUE, value |-> Envelope(v, TRUE)] : v \in RetryVitals}

InitRetry ==
    /\ rules = TestRules
    /\ patientStates = << >>
    /\ now = 0
    /\ nextSweep = StateTtl
    /\ lastEval = NoEval
    /\ streak = [p \in Patients |-> ZeroStreak]
    /\ sweepObs = NoSweep
    /\ startPc = "consuming"
    /\ attempt = 1
    /\ lastError = NoError
    /\ consumerExists = TRUE
    /\ acq = Acquired
    /\ counters = ZeroCounters
    /\ schemasLoaded = TRUE
    /\ schemas = SchemaIds
    /\ connected = TRUE
    /\ broker \in [1..MaxRetryMsgs ->
                      {[data |-> d, state |-> "pending", deliveries |-> 0,
                        naks |-> 0, ackedAt |-> 0] : d \in RetryData}]
    /\ pc = "idle"
    /\ cur = NoDelivery
    /\ alerts = << >>
    /\ proc = Running
    /\ snapshot = NoSnapshot
    /\ client = Established

NextRetry ==
    \/ \E i \in 1..Len(broker) : HandleMessage(i)
    \/ PublishResolves
    \/ PublishRejects

SpecRetry == InitRetry /\ [][NextRetry]_vars

(***************************************************************************)
(* The pipeline fed with raw samples and with envelopes whose outer value  *)
(* and nested payload the schema judges differently.                       *)
(***************************************************************************)

\* An envelope and its payload, each conforming to the inbound schema or not.
EnvelopeOf(payload, ok) ==
    [conforms |-> ok, event_name |-> "vitals.recorded", payload |-> payload]

UnwrapData ==
    LET low == [patient_id |-> "p1", heart_rate |-> 75, oxygen_saturation |-> 85]
        normal == [patient_id |-> "p2", heart_rate |-> 75, oxygen_saturation |-> 98]
    IN {[json |-> TRUE, value |-> Sample(normal, ok)] : ok \in BOOLEAN}
       \cup {[json |-> TRUE, value |-> EnvelopeOf(Sample(low, inner), outer)] :
                inner \in BOOLEAN, outer \in BOOLEAN}
       \cup {[json |-> TRUE, value |-> EnvelopeOf(JsonNull, FALSE)]}

NextUnwrap ==
    \/ \E data \in UnwrapData : Produce(data)
    \/ \E i \in 1..Len(broker) : HandleMessage(i)
    \/ PublishResolves
    \/ PublishRejects

SpecUnwrap == Init /\ [][NextUnwrap]_vars

(***************************************************************************)
(* The NatsClient on its own: connect() and close() called by several      *)
(* callers in any order, each attempt succeeding or failing.               *)
(***************************************************************************)
InitConnect ==
    /\ rules = TestRules
    /\ patientStates = << >>
    /\ now = 0
    /\ nextSweep = StateTtl
    /\ lastEval = NoEval
    /\ streak = [p \in Patients |-> ZeroStreak]
    /\ sweepObs = NoSweep
    /\ startPc = "get"
    /\ attempt = 1
    /\ lastError = NoError
    /\ consumerExists = FALSE
    /\ acq = NoAcq
    /\ counters = ZeroCounters
    /\ schemasLoaded = TRUE
    /\ schemas = SchemaIds
    /\ connected = FALSE
    /\ broker = << >>
    /\ pc = "idle"
    /\ cur = NoDelivery
    /\ alerts = << >>
    /\ proc = Running
    /\ snapshot = NoSnapshot
    /\ client = NoConn

NextConnect ==
    \/ \E c \in Callers : ConnectCalled(c)
    \/ \E c \in Callers : ConnectResolves(c)
    \/ \E c \in Callers : ConnectRejects(c)
    \/ CloseCalled
    \/ CloseCompletes

SpecConnect == InitConnect /\ [][NextConnect]_vars

(***************************************************************************)
(* The pipeline while the alert stream is available: every js.publish is   *)
(* answered with an acknowledgement, sooner or later.                      *)
(***************************************************************************)
NextAvailable ==
    \/ \E data \in MessageData : Produce(data)
    \/ \E i \in 1..Len(broker) : HandleMessage(i)
    \/ PublishResolves
    \/ ConsumerFailed

SpecAvailable == Init /\ [][NextAvailable]_vars /\ WF_vars(PublishResolves)

(***************************************************************************)
(* The pipeline with a shutdown signal arriving at any moment.             *)
(***************************************************************************)
NextShutdown ==
    \/ \E data \in MessageData : Produce(data)
    \/ \E i \in 1..Len(broker) : HandleMessage(i)
    \/ PublishResolves
    \/ PublishRejects
    \/ ConsumerFailed
    \/ ShutdownSignal
    \/ ShutdownCompletes

SpecShutdown == Init /\ [][NextShutdown]_vars

(***************************************************************************)
(* Properties                                                              *)
(***************************************************************************)
\* persist_samples as the rule file gives it for a kind.
RawPersist(kind, r) == IF kind = "spo2_low" THEN r.spo2_persist ELSE r.hr_persist

\* The sample violates the enabled kind k and no other enabled kind.
ViolatesOnly(k, vitals, r) ==
    /\ KindEnabled(k, r) /\ IsViolating(k, vitals, r)
    /\ \A j \in Kinds \ {k} : ~(KindEnabled(j, r) /\ IsViolating(j, vitals, r))

\* C1: for a rule with persist_samples = P >= 1, the n-th consecutive sample
\* of a patient that violates the rule's kind (and no other) does not alert
\* while n < P and alerts, with that kind's reason, when n = P; the counter
\* the engine keeps is the length of the run of violating samples, so a
\* non-violating sample puts it back to 0 and the next violating sample
\* counts as the first again.
C1_DebouncedAlert ==
    lastEval.called =>
        LET v == lastEval.vitals
            p == v.patient_id
        IN \A k \in Kinds :
              (KindEnabled(k, rules) /\ RawPersist(k, rules) >= 1) =>
                  LET P == RawPersist(k, rules)
                      n == streak[p][k]
                  IN /\ CountOf(patientStates, p, k) = n
                     /\ ~IsViolating(k, v, rules) => patientStates[p].violations[k] = 0
                     /\ (ViolatesOnly(k, v, rules) /\ n < P) =>
                            ~lastEval.result.shouldAlert
                     /\ (ViolatesOnly(k, v, rules) /\ n = P) =>
                            /\ lastEval.result.shouldAlert
                            /\ HasCode(lastEval.result.reasons, ReasonCode(k))

\* C1 witness: the second consecutive high heart rate under persist_samples = 2
\* alerts, after an earlier run was cut by a normal sample.
C1_Witness ==
    /\ lastEval.called
    /\ rules.hr_persist = 2 /\ KindEnabled("heart_rate_high", rules)
    /\ ViolatesOnly("heart_rate_high", lastEval.vitals, rules)
    /\ streak[lastEval.vitals.patient_id]["heart_rate_high"] = 2
    /\ lastEval.result.shouldAlert

Finished == cur.status \in {"returned", "threw"}

\* C2: a delivery whose payload fails to parse, or which the inbound
\* validator reports invalid, is acked once and never naked, raises
\* dropped_invalid by exactly one and does not reach evaluate().
C2_InvalidIsAckedAndDropped ==
    (Finished /\ (cur.parseFailed \/ (cur.validatorCalled /\ ~cur.validatorValid))) =>
        /\ cur.status = "returned"
        /\ cur.acks = 1 /\ cur.naks = 0
        /\ broker[cur.msg].state = "acked"
        /\ counters.dropped_invalid = cur.before.dropped_invalid + 1
        /\ cur.evalCalls = 0

\* C2 witness: a parse failure has been handled after a schema failure.
C2_Witness ==
    /\ cur.status = "returned" /\ cur.parseFailed
    /\ counters.dropped_invalid = 2
    /\ schemasLoaded /\ schemas = SchemaIds

\* C3: when an alert is warranted and the publish attempt fails, the message
\* is naked with a 2000 ms delay and never acked, dropped_publish_fail rises
\* by exactly one and alerts_published does not change.
C3_PublishFailureNaks ==
    (cur.status = "returned" /\ cur.shouldAlert /\ cur.transportCalls = 1
        /\ cur.published = "false") =>
        /\ cur.naks = 1 /\ cur.nakDelay = 2000 /\ cur.acks = 0
        /\ broker[cur.msg].state # "acked"
        /\ counters.dropped_publish_fail = cur.before.dropped_publish_fail + 1
        /\ counters.alerts_published = cur.before.alerts_published

C3_Witness ==
    /\ cur.status = "returned" /\ cur.shouldAlert /\ cur.transportCalls = 1
    /\ cur.published = "false" /\ cur.naks = 1

\* C4: when the built AlertEvent fails outbound validation, the alert is
\* dropped and not retried: the transport is not called and the message is
\* not naked for redelivery.
C4_OutboundInvalidNotRetried ==
    (cur.status = "returned" /\ cur.begun = "invalid") =>
        /\ cur.transportCalls = 0
        /\ cur.naks = 0
        /\ broker[cur.msg].state # "pending"

\* C5: every handled delivery ends in exactly one call of ack() or nak();
\* nak() only when an alert was warranted and publishAlert reported failure,
\* ack() for a parse error, a schema failure, no alert and a published alert.
C5_ExactlyOneSettlement ==
    Finished =>
        /\ cur.acks + cur.naks = 1
        /\ cur.naks = 1 => (cur.shouldAlert /\ cur.published = "false")
        /\ (cur.parseFailed \/ (cur.validatorCalled /\ ~cur.validatorValid)
              \/ (cur.evalCalls = 1 /\ ~cur.shouldAlert) \/ cur.published = "true")
             => cur.acks = 1

\* C6: no message is handled more than max_deliver = 5 times or naked more
\* than 5 times, a message naked on its 5th delivery is not delivered again,
\* and an acked message is not delivered after its ack.
C6_NoPoisonLoop ==
    \A i \in 1..Len(broker) :
        /\ broker[i].deliveries <= 5
        /\ broker[i].naks <= 5
        /\ broker[i].naks = 5 => (broker[i].state = "exhausted" /\ ~Deliverable(i))
        /\ broker[i].state = "acked" =>
              (broker[i].deliveries = broker[i].ackedAt /\ ~Deliverable(i))

\* C6 witness: a message has been naked on each of its five deliveries.
C6_Witness ==
    \E i \in 1..Len(broker) :
        broker[i].deliveries = 5 /\ broker[i].naks = 5 /\ broker[i].state = "exhausted"

\* C7: whatever the payload, handleMessage returns normally and the consume
\* loop stays alive for the next message.
C7_HandlerNeverThrows ==
    /\ cur.status # "threw"
    /\ startPc = "consuming"

\* C8: connectAndConsume is invoked at most 30 times, 2000 ms are waited
\* between consecutive invocations, and when every attempt failed with a
\* retryable error start() fails with the last one right after the 30th.
C8_BoundedRetries ==
    /\ acq.invocations <= 30
    /\ startPc # "sleeping" => acq.waitedMs = 2000 * (acq.invocations - 1)
    /\ (startPc = "failed" /\ acq.retryableOnly) =>
          /\ acq.invocations = 30 /\ acq.failures = 30
          /\ lastError \in {ErrConsumerNotFound, ErrStreamNotFound, ErrNoResponders,
                            ErrUnavailable}

C8_Witness == startPc = "failed" /\ acq.retryableOnly /\ acq.invocations = 30

\* The claim's permanent error: code not '503', message with none of the
\* three phrases.
C9_Permanent(err) ==
    /\ err.code # "503"
    /\ ~Includes(err.message, <<"stream", "not", "found">>)
    /\ ~Includes(err.message, <<"unavailable">>)
    /\ ~Includes(err.message, <<"consumer", "not", "found">>)

\* C9: once an attempt has failed with a permanent error, start() has failed
\* on that attempt: no wait follows it and no further attempt is made.
C9_PermanentFailsAtOnce ==
    (lastError # NoError /\ C9_Permanent(lastError)) =>
        /\ startPc = "failed"
        /\ acq.invocations = acq.failures
        /\ acq.waitedMs = 2000 * (acq.failures - 1)

C9_Witness ==
    /\ startPc = "failed" /\ lastError = ErrPermission
    /\ acq.invocations = 3 /\ acq.waitedMs = 4000

\* C10: an 'already exists' outcome of the create, after another instance
\* took the name, does not fail the acquisition attempt.
C10_AlreadyExistsIsSuccess ==
    acq.raced => (startPc \notin {"failed", "sleeping"} /\ lastError # ErrAlreadyExists)

\* C11: once start() has failed for good (a permanent error, or the retry
\* budget used up) and its rejection has been handled, the process has
\* terminated with a non-zero exit status; it is not left running without a
\* consumer.
C11_FatalAcquisitionExits ==
    (startPc = "failed" /\ proc.startRejected) => proc.status = "exited1"

C13_CountersStepIndependently ==
    [][lastEval'.called =>
          LET v == lastEval'.vitals
              p == v.patient_id
          IN /\ p \in DOMAIN patientStates'
             /\ \A k \in Kinds :
                   IF KindEnabled(k, rules)
                   THEN patientStates'[p].violations[k] =
                            IF IsViolating(k, v, rules)
                            THEN CountOf(patientStates, p, k) + 1
                            ELSE 0
                   ELSE patientStates'[p].violations[k] =
                            GetPatientState(patientStates, p, now)[p].violations[k]
             /\ \A q \in Patients \ {p} :
                   /\ q \in DOMAIN patientStates' <=> q \in DOMAIN patientStates
                   /\ q \in DOMAIN patientStates =>
                         patientStates'[q] = patientStates[q]]_vars

\* C13 witness: with all three kinds enabled a sample with a high heart rate
\* and a low SpO2 has raised both counters to 2, the low-heart-rate counter
\* standing at exactly 0.
C13_Witness ==
    /\ lastEval.called
    /\ \A k \in Kinds : KindEnabled(k, rules)
    /\ lastEval.vitals.heart_rate = 130 /\ lastEval.vitals.oxygen_saturation = 85
    /\ patientStates[lastEval.vitals.patient_id].violations =
           [heart_rate_high |-> 2, heart_rate_low |-> 0, spo2_low |-> 2]

\* C14: a decision with two or more reasons has severity 'high', whatever
\* the readings are.
C14_MultipleReasonsHigh ==
    (lastEval.called /\ Len(lastEval.result.reasons) >= 2) =>
        lastEval.result.severity = "high"

\* C14 witness: two reasons whose readings, each on its own, are below the
\* critical cutoffs (heart rate 130, SpO2 89).
C14_Witness ==
    /\ lastEval.called /\ Len(lastEval.result.reasons) = 2
    /\ lastEval.vitals.heart_rate = 130 /\ lastEval.vitals.oxygen_saturation = 89
    /\ lastEval.result.severity = "high"

\* The severity the claim gives a single reason of a kind with reading x.
C15_Expected(code, vitals) ==
    LET hr == vitals.heart_rate
        o2 == vitals.oxygen_saturation
    IN CASE code = "SPO2_LOW" ->
                IF o2 < 85 THEN "high" ELSE IF o2 < 90 THEN "medium" ELSE "low"
         [] code = "HEART_RATE_HIGH" ->
                IF hr > 140 THEN "high" ELSE IF hr > 130 THEN "medium" ELSE "low"
         [] code = "HEART_RATE_LOW" ->
                IF hr < 40 THEN "high" ELSE IF hr < 45 THEN "medium" ELSE "low"

\* C15: a decision with exactly one reason has severity 'high' iff the reading
\* is beyond the kind's critical cutoff (SpO2 < 85, heart rate > 140, heart
\* rate < 40), else 'medium' iff it is beyond the kind's moderate cutoff
\* (SpO2 < 90, heart rate > 130, heart rate < 45), else 'low'; heart rate 130
\* against a high threshold of 120 gives 'low', SpO2 80 against 90 'high'.
C15_SingleReasonSeverity ==
    (lastEval.called /\ Len(lastEval.result.reasons) = 1) =>
        LET reason == lastEval.result.reasons[1]
            v == lastEval.vitals
        IN /\ lastEval.result.severity = C15_Expected(reason.code, v)
           /\ (reason.code = "HEART_RATE_HIGH" /\ v.heart_rate = 130
                 /\ rules.hr_high = 120) => lastEval.result.severity = "low"
           /\ (reason.code = "SPO2_LOW" /\ v.oxygen_saturation = 80
                 /\ rules.spo2_low = 90) => lastEval.result.severity = "high"

\* C15 witness: the single reason HEART_RATE_HIGH at 130 against 120 is 'low'.
C15_Witness ==
    /\ lastEval.called /\ Len(lastEval.result.reasons) = 1
    /\ lastEval.result.reasons[1].code = "HEART_RATE_HIGH"
    /\ lastEval.vitals.heart_rate = 130 /\ rules.hr_high = 120
    /\ lastEval.result.severity = "low"

\* The two messages of a kind: <<critical variant, routine variant>>.
C16_Variants(code) ==
    CASE code = "SPO2_LOW" ->
            <<"Critical: Administer oxygen immediately and contact physician.",
              "Monitor closely and consider supplemental oxygen.">>
      [] code = "HEART_RATE_HIGH" ->
            <<"Urgent: Check patient status and notify physician.",
              "Monitor patient and reassess in 5 minutes.">>
      [] code = "HEART_RATE_LOW" ->
            <<"Urgent: Check patient responsiveness and notify physician.",
              "Monitor patient closely and assess symptoms.">>

\* C16: a decision with two or more reasons carries the generic
\* multi-violation message; a decision with exactly one reason carries its
\* kind's critical variant if and only if its severity is 'high', and the
\* kind's routine-monitoring variant otherwise.
C16_ActionMirrorsSeverity ==
    (lastEval.called /\ lastEval.result.shouldAlert) =>
        LET res == lastEval.result
        IN IF Len(res.reasons) >= 2
           THEN res.suggestedAction =
                    "Immediate medical attention required. Multiple vital signs abnormal."
           ELSE LET variants == C16_Variants(res.reasons[1].code)
                IN /\ res.suggestedAction \in {variants[1], variants[2]}
                   /\ res.suggestedAction = variants[1] <=> res.severity = "high"

\* C16 witness: a single 'medium' reason (heart rate 44) carries the routine
\* variant.
C16_Witness ==
    /\ lastEval.called /\ Len(lastEval.result.reasons) = 1
    /\ lastEval.vitals.heart_rate = 44
    /\ lastEval.result.severity = "medium"
    /\ lastEval.result.suggestedAction = "Monitor patient closely and assess symptoms."

\* C17: a sweep at instant now removes exactly the patients with
\* now - lastUpdated > TTL: a patient within the TTL (idle for exactly the TTL
\* included) survives it, every patient idle for longer is gone after it, and
\* the survivors' counters and lastUpdated are what they were.
C17_SweepRemovesExactlyStale ==
    [][sweepObs'.sweeps # sweepObs.sweeps =>
          /\ \A p \in DOMAIN patientStates :
                IF now - patientStates[p].lastUpdated > StateTtl
                THEN p \notin DOMAIN patientStates' /\ p \in sweepObs'.evicted
                ELSE /\ p \in DOMAIN patientStates'
                     /\ patientStates'[p] = patientStates[p]
          /\ DOMAIN patientStates' \subseteq DOMAIN patientStates
          /\ sweepObs'.evicted \subseteq DOMAIN patientStates]_vars

\* C17 witness: one sweep has evicted p1 and kept p2, which had been idle for
\* exactly the TTL.
C17_Witness ==
    /\ sweepObs.sweeps > 0 /\ ~lastEval.called
    /\ sweepObs.evicted = {"p1"}
    /\ "p1" \notin DOMAIN patientStates
    /\ "p2" \in DOMAIN patientStates
    /\ now = nextSweep - StateTtl
    /\ now - patientStates["p2"].lastUpdated = StateTtl

\* C18: with the sweep firing every TTL from the engine's construction, a
\* patient updated at instant 0 and never again is tracked at every instant
\* before 2 x TTL and is gone once the sweep of instant 2 x TTL has run; no
\* patient is tracked while idle for more than 2 x TTL, and one idle for
\* exactly 2 x TTL is tracked only until the sweep due at that instant runs.
C18_StalenessWindow ==
    /\ \A p \in Patients :
          (sweepObs.touched[p] = 0 /\ now < 2 * StateTtl) =>
              (p \in DOMAIN patientStates /\ patientStates[p].lastUpdated = 0)
    /\ \A p \in DOMAIN patientStates :
          /\ now - patientStates[p].lastUpdated <= 2 * StateTtl
          /\ now - patientStates[p].lastUpdated = 2 * StateTtl => now = nextSweep

\* C18 witness: p1, updated at instant 0 only, survived the sweep at TTL and
\* was evicted by the sweep at 2 x TTL.
C18_Witness ==
    /\ sweepObs.touched["p1"] = 0
    /\ sweepObs.sweeps = 2 /\ now = 2 * StateTtl
    /\ "p1" \in sweepObs.evicted
    /\ "p1" \notin DOMAIN patientStates

\* C19: in the pipeline, with deliveries and redeliveries of one patient's
\* messages interleaved with suspended publishes, no increment is lost: each
\* kind's counter equals the number of deliveries of violating samples
\* evaluated for the patient since the last non-violating one.
C19_NoLostIncrement ==
    \A p \in Patients : \A k \in Kinds :
        KindEnabled(k, rules) => CountOf(patientStates, p, k) = streak[p][k]

\* C19 witness: three evaluated deliveries of p1's high heart rate (one of
\* them a redelivery after a failed publish) while the last one's publish is
\* in flight: the counter is 3.
C19_Witness ==
    /\ pc = "publishing"
    /\ Len(broker) = 2
    /\ \A i \in 1..2 : EntityOf(broker[i].data) = "p1"
    /\ broker[1].deliveries + broker[2].deliveries = 3
    /\ streak["p1"]["heart_rate_high"] = 3
    /\ patientStates["p1"].violations["heart_rate_high"] = 3

\* C20: while the handler of one patient's message is suspended in its alert
\* publish, a deliverable message of another patient can be handled.
C20_OtherEntityNotBlocked ==
    pc = "publishing" =>
        \A j \in 1..Len(broker) :
            (/\ Deliverable(j)
             /\ EntityOf(broker[j].data) \notin {"none", EntityOf(broker[cur.msg].data)})
                => ENABLED HandleMessage(j)

\* C21: the messages whose handlers are in flight at the same time never
\* exceed max_messages = 100: the loop awaits each handler, so there is at
\* most one.
C21_InFlightBounded ==
    /\ Cardinality(InFlight) <= MaxMessages
    /\ Cardinality(InFlight) <= 1
    /\ pc = "publishing" => InFlight = {cur.msg}

\* C21 witness: one handler is suspended in its publish while another
\* message waits for delivery.
C21_Witness ==
    /\ pc = "publishing" /\ InFlight = {cur.msg}
    /\ \E j \in 1..Len(broker) : j # cur.msg /\ Deliverable(j)

\* C22: on shutdown every handler in flight has issued its ack or nak before
\* the NATS connection is released and the process ends; no handler is left
\* suspended on a connection that is gone.
C22_ShutdownDrainsHandlers ==
    /\ ~connected => (pc = "idle" /\ InFlight = {})
    /\ proc.status = "exited0" => cur.status # "awaiting"

\* C23: when the evaluation of a validated message warrants no alert, the
\* message is acked (never naked), the publisher is not called, and
\* alerts_published and dropped_publish_fail are what they were before the
\* delivery.
C23_NoAlertAcksOnly ==
    (cur.status = "returned" /\ cur.validatorValid /\ cur.evalCalls = 1
        /\ ~cur.shouldAlert) =>
        /\ cur.acks = 1 /\ cur.naks = 0
        /\ broker[cur.msg].state = "acked"
        /\ cur.publishCalls = 0 /\ cur.transportCalls = 0
        /\ counters.alerts_published = cur.before.alerts_published
        /\ counters.dropped_publish_fail = cur.before.dropped_publish_fail
        /\ counters.validated = cur.before.validated + 1

\* C23 witness: a normal sample of p2 has been acked after an earlier
\* delivery had published an alert.
C23_Witness ==
    /\ cur.status = "returned" /\ cur.validatorValid /\ cur.evalCalls = 1
    /\ ~cur.shouldAlert /\ cur.acks = 1
    /\ EntityOf(broker[cur.msg].data) = "p2"
    /\ counters.alerts_published = 1

\* C24: when an alert is warranted and the publish succeeds, the message is
\* acked and never naked, alerts_published rises by exactly one and
\* dropped_publish_fail does not change.
C24_PublishSuccessAcks ==
    (cur.status = "returned" /\ cur.shouldAlert /\ cur.published = "true") =>
        /\ cur.acks = 1 /\ cur.naks = 0
        /\ broker[cur.msg].state = "acked"
        /\ cur.publishCalls = 1 /\ cur.transportCalls = 1
        /\ counters.alerts_published = cur.before.alerts_published + 1
        /\ counters.dropped_publish_fail = cur.before.dropped_publish_fail

\* C24 witness: a publish succeeded on the redelivery that followed a failed
\* publish.
C24_Witness ==
    /\ cur.status = "returned" /\ cur.shouldAlert /\ cur.published = "true"
    /\ broker[cur.msg].deliveries = 2 /\ broker[cur.msg].naks = 1
    /\ counters.alerts_published = 1 /\ counters.dropped_publish_fail = 1

\* The delivery being handled carries a validated sample whose SpO2 is below
\* the low threshold, under persist_samples = 1, with the alert schema loaded.
C25_Case ==
    /\ cur.msg > 0 /\ cur.validatorValid /\ cur.evalCalls = 1
    /\ KindEnabled("spo2_low", rules) /\ rules.spo2_persist = 1
    /\ Unwrap(broker[cur.msg].data.value).oxygen_saturation < rules.spo2_low
    /\ schemasLoaded /\ AlertRaisedId \in schemas

\* The alert of the delivery has been published and the message acked.
C25_Done ==
    /\ cur.status = "returned" /\ cur.published = "true"
    /\ cur.acks = 1 /\ cur.naks = 0 /\ broker[cur.msg].state = "acked"
    /\ Len(alerts) > 0
    /\ LET a == alerts[Len(alerts)]
           v == Unwrap(broker[cur.msg].data.value)
       IN /\ a.msg = cur.msg /\ a.outcome = "published"
          /\ a.event.event_name = "patient.alert.raised"
          /\ a.event.payload.patient_id = v.patient_id
          /\ a.event.payload.vitals_snapshot =
                 [heart_rate |-> v.heart_rate, oxygen_saturation |-> v.oxygen_saturation]
          /\ Len(a.event.payload.reasons) >= 1
          /\ HasCode(a.event.payload.reasons, "SPO2_LOW")

\* C25: a valid sample below the SpO2 threshold under persist_samples = 1,
\* handled while the publisher is available, has its alert built and handed to
\* the transport, and that leads to a published patient.alert.raised event
\* with the sample's patient_id, its vitals snapshot and at least one reason,
\* and to the message being acked.
C25_Spo2AlertPublished ==
    /\ [](C25_Case => (cur.shouldAlert /\ cur.transportCalls = 1
                         /\ cur.status \in {"awaiting", "returned"}))
    /\ [](C25_Case /\ cur.status = "returned" => C25_Done)
    /\ \A i \in 1..MaxMsgs :
          (C25_Case /\ cur.msg = i /\ cur.status = "awaiting") ~> (C25_Done /\ cur.msg = i)

\* C25 witness: p1's low SpO2 sample has been published and acked.
C25_Witness ==
    /\ C25_Case /\ C25_Done
    /\ alerts[Len(alerts)].event.payload.patient_id = "p1"
    /\ alerts[Len(alerts)].event.payload.vitals_snapshot.oxygen_saturation = 85

\* C28: every publishAlert call builds its event with an event_id of its
\* own: no two events built by the service share one, and the event rebuilt
\* for a redelivered message differs in event_id from the earlier attempt's.
C28_FreshEventIds ==
    \A i \in 1..Len(alerts) : \A j \in 1..Len(alerts) :
        i # j => alerts[i].event_id # alerts[j].event_id

\* C28 witness: the alert of a message was built again after a failed publish
\* and a nak-driven redelivery; the two events are the same but for the id.
C28_Witness ==
    \E i \in 1..Len(alerts) : \E j \in 1..Len(alerts) :
        /\ i < j
        /\ alerts[i].msg = alerts[j].msg
        /\ alerts[i].outcome = "failed"
        /\ broker[alerts[i].msg].naks >= 1
        /\ alerts[i].event.payload.patient_id = alerts[j].event.payload.patient_id
        /\ alerts[i].event_id # alerts[j].event_id

\* The patients evaluated at least once since their last eviction.
C26_Expected ==
    {p \in Patients :
        /\ sweepObs.touched[p] # Undefined
        /\ \/ sweepObs.evictedAt[p] = Undefined
           \/ sweepObs.touched[p] >= sweepObs.evictedAt[p]}

\* C26: the tracked patients are exactly those evaluated at least once since
\* their last eviction and getTrackedPatientsCount() is their number; an
\* entry appears only in the evaluate() call for its patient, holding after
\* that call what one sample makes of zeroed counters, and disappears only in
\* a sweep.
C26_TrackedSetExact ==
    /\ [](/\ DOMAIN patientStates = C26_Expected
          /\ GetTrackedPatientsCount(patientStates) = Cardinality(C26_Expected))
    /\ [][\A p \in Patients :
            /\ (p \notin DOMAIN patientStates /\ p \in DOMAIN patientStates') =>
                  /\ lastEval'.called /\ lastEval'.vitals.patient_id = p
                  /\ sweepObs'.sweeps = sweepObs.sweeps
                  /\ patientStates'[p].lastUpdated = now
                  /\ \A k \in Kinds :
                        patientStates'[p].violations[k] =
                            IF ~KindEnabled(k, rules) THEN Undefined
                            ELSE IF IsViolating(k, lastEval'.vitals, rules) THEN 1 ELSE 0
            /\ (p \in DOMAIN patientStates /\ p \notin DOMAIN patientStates') =>
                  /\ sweepObs'.sweeps = sweepObs.sweeps + 1
                  /\ now - patientStates[p].lastUpdated > StateTtl]_vars

\* C26 witness: p1 was evicted and later evaluated again while p2 stayed
\* evicted: one patient is tracked.
C26_Witness ==
    /\ sweepObs.evictedAt["p1"] # Undefined /\ sweepObs.evictedAt["p2"] # Undefined
    /\ DOMAIN patientStates = {"p1"}
    /\ sweepObs.touched["p2"] # Undefined
    /\ GetTrackedPatientsCount(patientStates) = 1

\* C27: an evaluate() call for one patient leaves every other patient's
\* counters and lastUpdated as they were, so another patient's samples
\* neither advance nor reset a streak.
C27_OtherEntitiesUntouched ==
    [][(lastEval'.called /\ sweepObs'.sweeps = sweepObs.sweeps) =>
          \A q \in Patients \ {lastEval'.vitals.patient_id} :
              /\ q \in DOMAIN patientStates' <=> q \in DOMAIN patientStates
              /\ q \in DOMAIN patientStates => patientStates'[q] = patientStates[q]
              /\ streak'[q] = streak[q]]_vars

\* C27 witness: p1's second consecutive high heart rate alerts at instant 1
\* although p2 is tracked with counters of its own, last updated at instant 0.
C27_Witness ==
    /\ lastEval.called /\ lastEval.vitals.patient_id = "p1"
    /\ lastEval.result.shouldAlert
    /\ streak["p1"]["heart_rate_high"] = 2
    /\ patientStates["p1"].violations["heart_rate_high"] = 2
    /\ patientStates["p1"].lastUpdated = 1
    /\ "p2" \in DOMAIN patientStates
    /\ patientStates["p2"].lastUpdated = 0
    /\ patientStates["p2"].violations["spo2_low"] = 1

\* C29: a threshold direction absent from the rule configuration is
\* disabled: whatever the samples, no evaluate() emits that kind's reason
\* code and no tracked patient has a counter of that kind.
C29_AbsentDirectionDisabled ==
    \A k \in Kinds :
        Threshold(k, rules) = Undefined =>
            /\ ~HasCode(lastEval.result.reasons, ReasonCode(k))
            /\ \A p \in DOMAIN patientStates :
                  patientStates[p].violations[k] = Undefined

\* C29 witness: with no high heart-rate threshold configured, a patient's
\* second consecutive sample with a heart rate above the usual threshold and
\* a low SpO2 alerts for SpO2 alone.
C29_Witness ==
    /\ rules.hr_high = Undefined /\ rules.spo2_low # Undefined
    /\ lastEval.called
    /\ lastEval.vitals.heart_rate > HighThreshold
    /\ lastEval.result.shouldAlert
    /\ HasCode(lastEval.result.reasons, "SPO2_LOW")
    /\ patientStates[lastEval.vitals.patient_id].violations["spo2_low"] >= 2
    /\ patientStates[lastEval.vitals.patient_id].violations["heart_rate_high"] = Undefined

\* C30: getCounters() hands out a copy: an assignment by the observer to
\* the returned object leaves the internal counters as they were, and the
\* service's later increments leave the returned object as it was (until
\* the observer writes to it, it holds the counters of the instant of the
\* call).
C30_SnapshotIsACopy ==
    /\ []((snapshot.taken /\ snapshot.writes = 0) => SnapshotRead = snapshot.atTake)
    /\ [][snapshot.taken =>
            /\ snapshot'.writes # snapshot.writes =>
                  /\ counters' = counters
                  /\ SnapshotRead' # SnapshotRead
            /\ snapshot'.writes = snapshot.writes => SnapshotRead' = SnapshotRead]_vars

\* C30 witness: the observer took the counters, the service counted a
\* message after that, and the observer wrote to its object: the object and
\* the counters each differ from the counters of the instant of the call, in
\* different fields.
C30_Witness ==
    /\ snapshot.taken /\ snapshot.writes = 1
    /\ counters.received > snapshot.atTake.received
    /\ SnapshotRead.received = snapshot.atTake.received
    /\ SnapshotRead.dropped_invalid = snapshot.atTake.dropped_invalid + 1
    /\ counters.dropped_invalid = snapshot.atTake.dropped_invalid

\* C31: a message nak'ed because its publish failed is, once redelivered
\* with the publisher working again, published as an alert and acknowledged,
\* whatever was handled for the same patient between the two deliveries:
\* a finished redelivery of such a message in which no publish failed has
\* published an alert and acked.
C31_RetriedToSuccess ==
    \A i \in 1..Len(broker) :
        (/\ cur.msg = i /\ cur.status = "returned"
         /\ broker[i].naks >= 1
         /\ broker[i].deliveries > broker[i].naks
         /\ cur.published # "false") =>
            /\ cur.publishCalls = 1
            /\ cur.published = "true"
            /\ cur.acks = 1

\* C32: the inbound validator judges the parsed value as it was parsed,
\* before unwrapping, and a value it accepts, raw or wrapped, reaches
\* evaluate() unwrapped: as its nested payload when it carries one, as
\* itself otherwise; a value it rejects does not reach evaluate().
C32_ValidateThenUnwrap ==
    (cur.status \in {"returned", "awaiting"} /\ cur.validatorCalled) =>
        LET v == broker[cur.msg].data.value
        IN /\ cur.validatorValid =
                  (schemasLoaded /\ VitalsRecordedId \in schemas /\ v.conforms)
           /\ ~cur.validatorValid => cur.evalCalls = 0
           /\ cur.validatorValid =>
                 /\ cur.evalCalls = 1
                 /\ lastEval.called
                 /\ lastEval.vitals = IF "payload" \in DOMAIN v /\ v.payload # JsonNull
                                      THEN v.payload
                                      ELSE v

\* C32 witness: an accepted envelope whose payload alone would not conform
\* was evaluated as its payload, after an accepted raw sample was evaluated
\* as itself.
C32_Witness ==
    /\ Len(broker) = 2
    /\ "payload" \notin DOMAIN broker[1].data.value
    /\ broker[1].state = "acked" /\ counters.validated = 2
    /\ cur.msg = 2 /\ cur.status = "awaiting" /\ cur.validatorValid
    /\ "payload" \in DOMAIN broker[2].data.value
    /\ ~broker[2].data.value.payload.conforms
    /\ lastEval.vitals = broker[2].data.value.payload
    /\ lastEval.vitals.patient_id = "p1"

\* The fetch errors that stand for "the consumer is not there": code '404'
\* or a message containing 'consumer not found'.
C33_NotFound ==
    {ErrConsumerNotFound, ErrStreamNotFound}

C34_NoAlertAcks ==
    {i \in 1..Len(broker) :
        /\ broker[i].state = "acked"
        /\ broker[i].data.json
        /\ Validate(schemasLoaded, schemas, VitalsRecordedId, broker[i].data.value)
        /\ ~\E n \in 1..Len(alerts) :
               alerts[n].msg = i /\ alerts[n].outcome = "published"}

RECURSIVE C34_Deliveries(_)
C34_Deliveries(n) == IF n = 0 THEN 0 ELSE broker[n].deliveries + C34_Deliveries(n - 1)

\* C34: whenever every handler that was started has finished,
\* received = dropped_invalid + validated, validated = alerts_published +
\* dropped_publish_fail + the deliveries acknowledged with no alert, and
\* received is the number of deliveries handled; no counter ever decreases.
C34_CounterAccounting ==
    /\ [](pc = "idle" =>
            /\ counters.received = counters.dropped_invalid + counters.validated
            /\ counters.validated = counters.alerts_published
                                    + counters.dropped_publish_fail
                                    + Cardinality(C34_NoAlertAcks)
            /\ counters.received = C34_Deliveries(Len(broker)))
    /\ [][\A name \in DOMAIN counters : counters'[name] >= counters[name]]_vars

\* C35: every delivery that passes validation calls evaluate() exactly once,
\* redeliveries included: while one message is the only one delivered so
\* far, each kind its sample violates has a counter, and a streak, equal to
\* the number of times the message has been delivered.
C35_EvaluatePerDelivery ==
    /\ (cur.status \in {"returned", "awaiting"} /\ cur.validatorValid) => cur.evalCalls = 1
    /\ \A i \in 1..Len(broker) :
          (/\ broker[i].deliveries >= 1
           /\ \A j \in 1..Len(broker) : j # i => broker[j].deliveries = 0
           /\ broker[i].data.json
           /\ Validate(schemasLoaded, schemas, VitalsRecordedId, broker[i].data.value)) =>
              LET v == Unwrap(broker[i].data.value)
              IN /\ counters.validated = broker[i].deliveries
                 /\ \A k \in Kinds :
                       IsViolating(k, v, rules) =>
                          /\ CountOf(patientStates, v.patient_id, k) = broker[i].deliveries
                          /\ streak[v.patient_id][k] = broker[i].deliveries

\* C35 witness: a low-SpO2 sample, nak'ed twice, has been delivered a third
\* time and the patient's counter stands at 3.
C35_Witness ==
    /\ Len(broker) = 1
    /\ broker[1].deliveries = 3 /\ broker[1].naks = 2
    /\ cur.msg = 1 /\ cur.evalCalls = 1
    /\ CountOf(patientStates, "p1", "spo2_low") = 3
    /\ counters.validated = 3

\* C36: a delivery that warrants an alert is acknowledged only after its
\* publish has completed with success: not before or during the publish (the
\* message is still unacknowledged at the broker if the process ends there),
\* and never after a publish that failed.
C36_AckAfterPublish ==
    /\ []((cur.status = "awaiting" /\ cur.shouldAlert) =>
            /\ cur.acks = 0
            /\ broker[cur.msg].state = "delivered")
    /\ []((cur.shouldAlert /\ cur.acks >= 1) =>
            /\ cur.status = "returned"
            /\ cur.transportCalls = 1 /\ cur.published = "true"
            /\ \E n \in 1..Len(alerts) :
                  alerts[n].msg = cur.msg /\ alerts[n].outcome = "published")
    /\ [][\A i \in 1..Len(broker) :
            (/\ broker[i].state # "acked" /\ broker'[i].state = "acked"
             /\ cur'.msg = i /\ cur'.shouldAlert) =>
                /\ pc = "publishing" /\ cur.msg = i
                /\ cur'.published = "true"]_vars

\* C36 witness: the process exited while the publish of an alert was
\* pending: the alert may be out, the message is unacknowledged.
C36_Witness ==
    /\ proc.status = "exited0"
    /\ pc = "publishing" /\ cur.status = "awaiting" /\ cur.shouldAlert
    /\ cur.transportCalls = 1 /\ cur.acks = 0
    /\ broker[cur.msg].state = "delivered"
    /\ Len(alerts) >= 1 /\ alerts[Len(alerts)].msg = cur.msg

\* C37: the first sample of a patient after its eviction is evaluated
\* against zeroed counters: every kind it violates gets the counter 1, and no
\* kind whose persist_samples exceeds 1 is among the reasons, whatever the
\* counters were when the patient was evicted.
C37_EvictionRestartsDebounce ==
    [][\A p \in Patients :
          (/\ p \notin DOMAIN patientStates
           /\ sweepObs.evictedAt[p] # Undefined
           /\ p \in DOMAIN patientStates') =>
              /\ lastEval'.called /\ lastEval'.vitals.patient_id = p
              /\ \A k \in Kinds :
                    /\ CountOf(patientStates', p, k) =
                          IF IsViolating(k, lastEval'.vitals, rules) THEN 1 ELSE 0
                    /\ (IF k = "spo2_low" THEN rules.spo2_persist ELSE rules.hr_persist) > 1
                          => ~HasCode(lastEval'.result.reasons, ReasonCode(k))]_vars

\* C37 witness: p1 was evicted with a heart-rate counter at its alerting
\* level, and its next sample, a high heart rate, gives no alert.
C37_Witness ==
    /\ sweepObs.evictedAt["p1"] # Undefined
    /\ "p1" \in sweepObs.evictedHot
    /\ sweepObs.touched["p1"] >= sweepObs.evictedAt["p1"]
    /\ lastEval.called /\ lastEval.vitals.patient_id = "p1"
    /\ lastEval.vitals.heart_rate > HighThreshold
    /\ ~lastEval.result.shouldAlert
    /\ CountOf(patientStates, "p1", "heart_rate_high") = 1

\* C38: with the schemas not loaded, or the inbound schema id unknown to
\* the validator, every message that has been delivered is acknowledged and
\* counted in dropped_invalid, evaluate() has not been called and no alert
\* has been built.
C38_UnloadedDropsAll ==
    (~schemasLoaded \/ VitalsRecordedId \notin schemas) =>
        /\ \A i \in 1..Len(broker) :
              broker[i].deliveries >= 1 =>
                 /\ broker[i].state = "acked"
                 /\ broker[i].deliveries = 1
        /\ counters.dropped_invalid = C34_Deliveries(Len(broker))
        /\ counters.validated = 0
        /\ ~lastEval.called
        /\ patientStates = << >>
        /\ alerts = << >>

\* C39: the client has at most one underlying connection, open or being
\* opened, at any time; a connect() call made while a connection exists or
\* an attempt is in progress starts no attempt; a failed attempt clears
\* connecting and leaves the connection absent, and then a connect() call
\* starts a new attempt.
C39_SingleConnection ==
    /\ [](/\ client.pending + client.open <= 1
          /\ client.connecting <=> client.pending = 1
          /\ connected <=> client.open = 1)
    /\ [][\A c \in Callers :
            /\ (client.call[c] # "skipped" /\ client'.call[c] = "skipped") =>
                  /\ connected \/ client.connecting
                  /\ client'.pending = client.pending
                  /\ client'.open = client.open
            /\ (client.call[c] # "threw" /\ client'.call[c] = "threw") =>
                  /\ ~client'.connecting /\ ~connected' /\ client'.pending = 0
            /\ (client.call[c] # "awaiting" /\ client'.call[c] = "awaiting") =>
                  /\ ~connected /\ ~client.connecting
                  /\ client'.pending = 1]_vars
    /\ []((~connected /\ ~client.connecting) =>
            \A c \in Callers : ENABLED (ConnectCalled(c) /\ client'.call[c] = "awaiting"))

\* C39 witness: main's attempt failed, another caller's later attempt is in
\* progress, and a third caller's call made meanwhile returned at once.
C39_Witness ==
    /\ client.call["main"] = "threw"
    /\ client.call["other1"] = "awaiting"
    /\ client.call["other2"] = "skipped"
    /\ client.connecting /\ ~connected /\ client.pending = 1

\* C40: whenever a caller's connect() has returned without error and close()
\* has not been called since, getConnection() returns a connection.
C40_ConnectedAfterConnect ==
    \A c \in Callers :
        client.call[c] \in {"returned", "skipped"} => GetConnection(connected) = "connection"

====
